---- MODULE Spec2Model ----
(***************************************************************************)
(* A model of the radio telemetry and log-relay engine of N5ZY Co-Pilot    *)
(* (src/modules/radio_updater.py, class RadioUpdater) together with the    *)
(* manual-entry callers in src/copilot.py.                                 *)
(*                                                                         *)
(* Threads: one listener per configured UDP port (_listen_loop), one relay *)
(* worker (_relay_loop), and the GUI thread that performs manual entry.    *)
(* Every access to state shared between threads is a step of its own, so   *)
(* that the interleavings of the Python threads are the interleavings of   *)
(* the model.                                                              *)
(***************************************************************************)
EXTENDS Integers, Sequences, FiniteSets, TLC

(***************************************************************************)
(* Program constants                                                       *)
(***************************************************************************)
\* 0xADBCCBDA as its two 16-bit halves (0xADBC, 0xCBDA).
MAGIC == <<44476, 52186>>
MSG_HEARTBEAT == 0
MSG_STATUS == 1
MSG_QSO_LOGGED == 5
MSG_LOGGED_ADIF == 12
HeaderLen == 12                \* magic + schema + type
QDateTimeLen == 13             \* 8-byte Julian day + 4-byte msecs + 1-byte spec
OffsetWrap == 59               \* "if qso_offset > 59: qso_offset = 0"

\* The configured listening ports (one listener thread per distinct port).
Ports == {2237, 2238, 2239}
\* Ports the radios send from (their own ephemeral listening ports).
SrcPorts == {61234, 61235}

(***************************************************************************)
(* Bounds of the model                                                     *)
(***************************************************************************)
MaxDatagrams == 2              \* datagrams the radios send in one run
MaxManual == 1                 \* manual entries in one run (Spec)
MaxFaults == 1                 \* I/O failures (disk, backend) in one run
MaxTime == 2                   \* clock ticks in one run
MaxHeartbeats == 3             \* heartbeats sent in one run of the status check
MaxChecks == 2                 \* status checks in one run
MaxElapses == 2                \* times the clock moves in one run
MaxGrids == 1                  \* calls of update_grid in one run
MaxRestarts == 1               \* changes of the jt9.exe processes in one run
MaxPolls == 2                  \* polls of the jt9 monitor in one run
MaxStopDatagrams == 1          \* datagrams in flight when shutdown is studied
MaxText == 3                   \* code points in a text, bytes in a payload
MaxSwitches == 2               \* calls of set_logger in one run
MaxRegrids == 2                \* calls of update_grid around a decoder restart
MaxRaises == 2                 \* exceptions of the stamper and the callback
MaxPops == 61                  \* contacts of the long run: the offset counter
                               \* is reset after 60 and reused once

(***************************************************************************)
(* Datagrams.  A datagram is described by the fields the engine reads and  *)
(* by `size', the number of bytes that actually arrived; a datagram whose  *)
(* size is smaller than its fields need is truncated.                      *)
(***************************************************************************)
Dgram(size, magic, type, id, src, msOff, call, freq) ==
    [size |-> size, magic |-> magic, type |-> type, id |-> id, src |-> src,
     msOff |-> msOff, call |-> call, freq |-> freq]

\* Bytes of a QString: 4-byte length prefix + UTF-8 bytes; the empty string
\* is the null marker 0xFFFFFFFF with no body.
QStringLen(s) == 4 + Len(s)

\* Bytes a message needs up to and including the instance id.
IdEnd(d) == HeaderLen + QStringLen(d.id)

\* Bytes a ContactLogged message needs up to and including exchange-received
\* (the strings the model does not carry are sent as null strings).
QsoEnd(d) ==
    IdEnd(d) + QDateTimeLen + QStringLen(d.call) + 4 + 8 + (6 * 4)
             + QDateTimeLen + (5 * 4)

HeartbeatOf(id, src) ==
    Dgram(HeaderLen + QStringLen(id), MAGIC, MSG_HEARTBEAT, id, src, 0, "", <<0, 0>>)
QsoOf(id, src, msOff, call, freq) ==
    LET d == Dgram(0, MAGIC, MSG_QSO_LOGGED, id, src, msOff, call, freq)
    IN  [d EXCEPT !.size = QsoEnd(d) + 4]

\* A header parser that does not compare the magic number.
parse_packet_header_any_magic(d) ==
    IF d.size < HeaderLen THEN "error"
    ELSE IF d.size < HeaderLen + 4 THEN "error"
    ELSE IF d.id # "" /\ d.size < IdEnd(d) THEN "error"
    ELSE "ok"

(***************************************************************************)
(* Codec                                                                   *)
(***************************************************************************)
\* _parse_packet_header: "error" or the message type.
parse_packet_header(d) ==
    IF d.size < HeaderLen THEN "error"                 \* Packet too short
    ELSE IF d.magic # MAGIC THEN "error"               \* Invalid magic number
    ELSE IF d.size < HeaderLen + 4 THEN "error"        \* no QString length
    ELSE IF d.id # "" /\ d.size < IdEnd(d) THEN "error" \* no QString content
    ELSE "ok"

\* A frequency is <<MHz, Hz below the MHz>>: tx_freq = f[1] * 10^6 + f[2] Hz.
FreqLe(a, b) == a[1] < b[1] \/ (a[1] = b[1] /\ a[2] <= b[2])
\* A range without its upper edge ("lo <= freq_mhz < hi").
InBandHalfOpen(f, lo, hi) == FreqLe(lo, f) /\ ~FreqLe(hi, f)
InBand(f, lo, hi) == FreqLe(lo, f) /\ FreqLe(f, hi)

\* f'{freq_mhz:.3f}MHz': the frequency rounded to the kHz, three decimals.
Pad3(n) == IF n < 10 THEN "00" \o ToString(n)
           ELSE IF n < 100 THEN "0" \o ToString(n) ELSE ToString(n)
OtherBandLabel(f) ==
    LET khz == (f[2] + 500) \div 1000
    IN  IF khz = 1000 THEN ToString(f[1] + 1) \o ".000MHz"
        ELSE ToString(f[1]) \o "." \o Pad3(khz) \o "MHz"

\* _freq_to_band (the code compares tx_freq / 1e6 with the edges in MHz); a
\* frequency in no range gets the label built from the frequency itself.
freq_to_band(f) ==
    IF      InBand(f, <<1, 800000>>, <<2, 0>>) THEN "160m"
    ELSE IF InBand(f, <<3, 500000>>, <<4, 0>>) THEN "80m"
    ELSE IF InBand(f, <<5, 300000>>, <<5, 400000>>) THEN "60m"
    ELSE IF InBand(f, <<7, 0>>, <<7, 300000>>) THEN "40m"
    ELSE IF InBand(f, <<10, 100000>>, <<10, 150000>>) THEN "30m"
    ELSE IF InBand(f, <<14, 0>>, <<14, 350000>>) THEN "20m"
    ELSE IF InBand(f, <<18, 68000>>, <<18, 168000>>) THEN "17m"
    ELSE IF InBand(f, <<21, 0>>, <<21, 450000>>) THEN "15m"
    ELSE IF InBand(f, <<24, 890000>>, <<24, 990000>>) THEN "12m"
    ELSE IF InBand(f, <<28, 0>>, <<29, 700000>>) THEN "10m"
    ELSE IF InBand(f, <<50, 0>>, <<54, 0>>) THEN "6m"
    ELSE IF InBand(f, <<144, 0>>, <<148, 0>>) THEN "2m"
    ELSE IF InBand(f, <<222, 0>>, <<225, 0>>) THEN "1.25m"
    ELSE IF InBand(f, <<420, 0>>, <<450, 0>>) THEN "70cm"
    ELSE IF InBand(f, <<902, 0>>, <<928, 0>>) THEN "33cm"
    ELSE IF InBand(f, <<1240, 0>>, <<1300, 0>>) THEN "23cm"
    ELSE IF InBand(f, <<2300, 0>>, <<2450, 0>>) THEN "13cm"
    ELSE IF InBand(f, <<3300, 0>>, <<3500, 0>>) THEN "9cm"
    ELSE IF InBand(f, <<5650, 0>>, <<5925, 0>>) THEN "6cm"
    ELSE IF InBand(f, <<10000, 0>>, <<10500, 0>>) THEN "3cm"
    ELSE IF InBand(f, <<24000, 0>>, <<24250, 0>>) THEN "1.25cm"
    ELSE OtherBandLabel(f)

\* The contact record (qso_data) the pipeline carries.  `src' is the
\* listening port of the thread that parsed it, or 0 for manual entry;
\* `offset' is _time_offset, -1 until the relay worker assigns it.
NoQso == [call |-> "", band |-> "", msOff |-> 0, src |-> 0, offset |-> -1]

\* A parser that requires the trailing propagation-mode string.
parse_qso_logged_strict(d, port) ==
    IF d.size < QsoEnd(d) + 4 THEN NoQso
    ELSE [call |-> d.call, band |-> freq_to_band(d.freq), msOff |-> d.msOff,
          src |-> port, offset |-> -1]

\* _parse_qso_logged: NoQso (None) when a field is cut short.
parse_qso_logged(d, port) ==
    IF d.size < QsoEnd(d) THEN NoQso
    ELSE [call |-> d.call, band |-> freq_to_band(d.freq), msOff |-> d.msOff,
          src |-> port, offset |-> -1]

\* A key that leaves the band out.
QsoKeyNoBand(q) == <<q.msOff \div 1000, q.call, "">>

\* qso_key of _handle_qso_logged: strftime('%Y%m%d%H%M%S') drops the
\* milliseconds of datetime_off.
QsoKey(q) == <<q.msOff \div 1000, q.call, q.band>>


(***************************************************************************)
(* Inputs                                                                  *)
(***************************************************************************)
\* Millisecond of the day of a contact's time-off: 1000 and 1500 fall in
\* the same whole second.
F6m == <<50, 313000>>
F2m == <<144, 174000>>
F70cm == <<432, 65000>>

\* ContactLogged datagrams the radios may send, with the port each is sent to.
QsoMenu ==
    { [port |-> 2237, d |-> QsoOf("ic7610", 61234, 1000, "W1AW", F6m)],
      [port |-> 2238, d |-> QsoOf("ic9700", 61235, 1500, "W1AW", F6m)],
      [port |-> 2238, d |-> QsoOf("ic9700", 61235, 1000, "W1AW", F2m)],
      [port |-> 2237, d |-> QsoOf("ic7610", 61234, 2000, "K1JT", F6m)] }

\* The three simultaneous contacts of stress_test_simultaneous: one callsign
\* on 6m, 2m and 70cm, one datagram to each listening port.
BurstMenu ==
    { [port |-> 2237, d |-> QsoOf("WSJT-X - ic7610", 61234, 1000, "W1AW", F6m)],
      [port |-> 2238, d |-> QsoOf("WSJT-X - ic9700", 61235, 1000, "W1AW", F2m)],
      [port |-> 2239, d |-> QsoOf("WSJT-X - ic7300", 61236, 1000, "W1AW", F70cm)] }

\* Datagrams that do not decode: 10 bytes, a wrong magic number, and a
\* heartbeat cut off inside its instance id.
MalformedMenu ==
    { [port |-> 2237, d |-> [HeartbeatOf("WSJT-X - ic7610", 61234) EXCEPT !.size = 10]],
      [port |-> 2237, d |-> [HeartbeatOf("WSJT-X - ic7610", 61234)
                               EXCEPT !.magic = <<44476, 0>>]],
      [port |-> 2238, d |-> [HeartbeatOf("WSJT-X - ic9700", 61235) EXCEPT !.size = 20]] }

\* Heartbeats: two radios, one of them heard on both ports and under two
\* instance ids.
HeartbeatMenu ==
    { [port |-> 2237, d |-> HeartbeatOf("WSJT-X - ic7610", 61234)],
      [port |-> 2237, d |-> HeartbeatOf("WSJT-X", 61234)],
      [port |-> 2238, d |-> HeartbeatOf("WSJT-X - ic7610", 61234)],
      [port |-> 2238, d |-> HeartbeatOf("WSJT-X - ic9700", 61235)] }

\* Messages the engine reads the type of and ignores: a Status message, and
\* a ContactLogged cut off inside its body.
StatusOf(id, src) ==
    Dgram(HeaderLen + QStringLen(id) + 8, MAGIC, MSG_STATUS, id, src, 0, "", <<0, 0>>)
IgnoredMenu ==
    { [port |-> 2237, d |-> StatusOf("WSJT-X - ic7610", 61234)],
      [port |-> 2238, d |-> [QsoOf("WSJT-X - ic9700", 61235, 1000, "W1AW", F2m)
                               EXCEPT !.size = 60]] }

ListenMenu == MalformedMenu \cup HeartbeatMenu \cup IgnoredMenu

\* The contact the operator enters by hand (log_manual_qso builds it).
ManualMenu ==
    { [call |-> "W1AW", band |-> "6m", msOff |-> 1000, src |-> 0, offset |-> -1] }

GUI == 0
\* The jt9 monitor thread.
WD == 1
\* time.time() when the engine is constructed: a positive number.
StartTime == 1
Threads == Ports \cup {GUI}
Loggers == {"n1mm", "n3fjp"}

\* The header block of the day's log file, as an entry of the file.
AdifHeader == [call |-> "<eoh>", band |-> "", msOff |-> 0, src |-> 0, offset |-> -1]
\* A raw record of a LoggedRecord (type 12) message, as an entry of the file.
AdifRaw(port) == [call |-> "<raw>", band |-> "", msOff |-> 0, src |-> port, offset |-> -1]

(***************************************************************************)
(* State                                                                   *)
(***************************************************************************)
VARIABLES
    running,        \* self.running
    wsjtx_ids,      \* self.wsjtx_ids: source port -> <<instance id, last_seen>>
    logged_qsos,    \* self.logged_qsos: set of qso_key
    qso_queue,      \* self.qso_queue
    contest_logger, \* self.contest_logger
    qso_offset,     \* _relay_loop's local counter
    adif,           \* the day's log file: its entries in file order
    pc,             \* where each listener thread and the GUI thread is
    cur,            \* the qso_data a thread is handling
    ldg,            \* the heartbeat datagram a listener is handling
    hdr,            \* write_header of a thread inside _write_qso_to_adif
    rpc,            \* where the relay worker is
    rcur,           \* the qso_data and target the relay worker is delivering
    inProgress,     \* deliveries to the logger backend that have not returned
    net,            \* datagrams in flight to the listeners: [port, d]
    now,            \* time.time()
    manualLeft,     \* manual entries the operator may still make
    faults,         \* I/O failures (disk, backend) that may still happen
    admitted,       \* history: contacts in the order their key was inserted
    dropped,        \* history: contacts dropped as duplicates
    writes,         \* history: contacts _write_qso_to_adif was called for
    pushed,         \* history: contacts in the order they were queued
    delivered,      \* history: deliveries [q, target, ok] in order
    discovered,     \* history: "Discovered" reports <<source port, id>>
    heard,          \* history: heartbeats received [port, src, id, t]
    llog,           \* history: what each listener did with each datagram
    wsjtx_order,    \* the keys of self.wsjtx_ids in insertion (iteration) order
    current_grid,   \* self.current_grid (NoGrid is None)
    jt9_pids,       \* self.jt9_pids
    wpc,            \* where the jt9 monitor thread is
    wcur,           \* current_pids of the jt9 monitor's poll
    iter,           \* the dict iterator of the GUI and monitor threads
    garg,           \* grid_square of the update_grid call in progress
    wsjt_last_seen, \* CoPilotApp.wsjt_last_seen: configured port -> time
    label,          \* bg of CoPilotApp.wsjt_status_labels
    procs,          \* the jt9.exe process ids tasklist would list
    budget,         \* what the environment may still do, by kind
    sentLoc,        \* history: LocationChange sends [port, id, grid, by]
    sentLogger,     \* history: grid messages to the logger [target, grid]
    polls,          \* history: the monitor's polls [prev, sample, grid, replay]
    checks,         \* history: completed status checks [t, label]
    calls,          \* history: GUI calls [op, arg, result]
    input,          \* the function under study and its argument [fn, arg]
    output,         \* what the function returned, NoOutput before the call
    hooks,          \* history: calls of location_stamper and qso_callback
    replacement     \* the RadioUpdater that save_settings constructs

vars == <<running, wsjtx_ids, logged_qsos, qso_queue, contest_logger,
          qso_offset, adif, pc, cur, ldg, hdr, rpc, rcur, inProgress, net,
          now, manualLeft, faults, admitted, dropped, writes,
          pushed, delivered, discovered, heard, llog, wsjtx_order,
          current_grid, jt9_pids, wpc, wcur, iter, garg, wsjt_last_seen,
          label, procs, budget, sentLoc, sentLogger, polls, checks, calls,
          input, output, hooks, replacement>>

engineVars == <<running, wsjtx_ids, logged_qsos, qso_queue, contest_logger,
                qso_offset, adif>>
threadVars == <<pc, cur, ldg, hdr>>
relayVars == <<rpc, rcur, inProgress>>
envVars == <<net, now, manualLeft, faults>>
histVars == <<admitted, dropped, writes, pushed, delivered, discovered, heard,
             llog>>
gridVars == <<current_grid, jt9_pids, wpc, wcur, iter, garg>>
appVars == <<wsjt_last_seen, label>>
extEnvVars == <<procs, budget>>
extHistVars == <<sentLoc, sentLogger, polls, checks, calls>>
pureVars == <<input, output>>
extVars == <<wsjtx_order, gridVars, appVars, extEnvVars, extHistVars, pureVars,
             hooks, replacement>>

NoDgram == Dgram(0, <<0, 0>>, 0, "", 0, 0, "", <<0, 0>>)

\* self.current_grid = None
NoGrid == ""
\* A call made on the GUI thread, as the history records it: the operation,
\* its argument, what the caller got back, and what the call found: the
\* relay queue (set_logger) or the registry's keys (update_grid).
CallRec(op, arg, result, found) ==
    [op |-> op, arg |-> arg, result |-> result, found |-> found]
\* A thread that is not iterating over self.wsjtx_ids.
NoIter == [pos |-> 0, used |-> 0, t |-> 0, snap |-> <<>>]

\* No second RadioUpdater has been constructed.
NoReplacement ==
    [rpc |-> "none", qso_queue |-> <<>>, rcur |-> NoQso, qso_offset |-> 0,
     sent |-> <<>>]

\* No function is under study.
NoInput == [fn |-> "", arg |-> <<>>]
NoOutput == [ok |-> FALSE, value |-> <<>>, offset |-> -1]

\* What the environment may do in one run, by kind.
BudgetKinds == {"heartbeat", "grid", "restart", "switch", "check", "elapse",
                "raise"}
NoBudget == [k \in BudgetKinds |-> 0]
\* No jt9.exe process, no operator at the grid and logger controls.
QuietEnv == procs = {} /\ budget = NoBudget

\* The state after RadioUpdater.__init__: start_listener has set running,
\* the listener threads, the relay thread and the GUI are at their loops.
InitCore ==
    /\ running = TRUE
    /\ wsjtx_ids = <<>>
    /\ logged_qsos = {}
    /\ qso_queue = <<>>
    /\ contest_logger = "n1mm"
    /\ qso_offset = 0
    /\ adif = <<>>
    /\ pc = [t \in Threads |-> IF t = GUI THEN "idle" ELSE "recv"]
    /\ cur = [t \in Threads |-> NoQso]
    /\ ldg = [t \in Threads |-> NoDgram]
    /\ hdr = [t \in Threads |-> FALSE]
    /\ rpc = "loop"
    /\ rcur = [q |-> NoQso, target |-> "n1mm", logger |-> "n1mm", sw |-> 0]
    /\ inProgress = 0
    /\ now = StartTime
    /\ hooks = {}
    /\ replacement = NoReplacement
    /\ wsjtx_order = <<>>
    /\ current_grid = NoGrid
    /\ jt9_pids = {}
    /\ wpc = "scan"
    /\ wcur = {}
    /\ iter = [t \in {GUI, WD} |-> NoIter]
    /\ garg = NoGrid
    /\ wsjt_last_seen = [c \in Ports |-> 0]
    /\ label = [c \in Ports |-> "red"]
    /\ sentLoc = <<>>
    /\ sentLogger = <<>>
    /\ polls = <<>>
    /\ checks = <<>>
    /\ calls = <<>>
    /\ admitted = <<>>
    /\ dropped = {}
    /\ writes = {}
    /\ pushed = <<>>
    /\ delivered = <<>>
    /\ discovered = <<>>
    /\ heard = {}
    /\ llog = [t \in Ports |-> <<>>]

\* No function is under study.
InitEngine ==
    /\ InitCore
    /\ input = NoInput
    /\ output = NoOutput

\* The datagrams of one run are in flight from the start: a listener may
\* receive each at any later time, in any order.
Flights(menu, n) == {S \in SUBSET menu : Cardinality(S) = n}

Init ==
    /\ InitEngine
    /\ QuietEnv
    /\ net \in Flights(QsoMenu, MaxDatagrams)
    /\ manualLeft = MaxManual
    /\ faults = MaxFaults

(***************************************************************************)
(* Listener thread of port p: _listen_loop                                 *)
(***************************************************************************)
Put(f, k, v) == [x \in DOMAIN f \cup {k} |-> IF x = k THEN v ELSE f[x]]

\* Bytes a LoggedRecord message needs: the id and the raw record.
AdifEnd(d) == IdEnd(d) + QStringLen("<eor>")

\* A dispatch that treats a LoggedRecord like a ContactLogged.
DispositionRecordAsContact(d) ==
    IF parse_packet_header(d) = "error" THEN "drop"
    ELSE IF d.type = MSG_HEARTBEAT THEN "heartbeat"
    ELSE IF d.type \in {MSG_QSO_LOGGED, MSG_LOGGED_ADIF} THEN "qso"
    ELSE "ignore"

\* What the listener does next with a datagram it received:
\*   "drop"      the header does not decode (except Exception: pass)
\*   "heartbeat" record the endpoint
\*   "qso"       a ContactLogged that parsed: on to _handle_qso_logged
\*   "adif"      a LoggedRecord that parsed: on to _handle_adif_logged
\*   "ignore"    any other type, or a body that does not parse
Disposition(d) ==
    IF parse_packet_header(d) = "error" THEN "drop"
    ELSE IF d.type = MSG_HEARTBEAT THEN "heartbeat"
    ELSE IF d.type = MSG_QSO_LOGGED
         THEN IF parse_qso_logged(d, 0) = NoQso THEN "ignore" ELSE "qso"
    ELSE IF d.type = MSG_LOGGED_ADIF
         THEN IF d.size < AdifEnd(d) THEN "ignore" ELSE "adif"
    ELSE "ignore"

\* A handler without the duplicate test.
IsDuplicateNever(q, keys) == FALSE

\* The duplicate test of _handle_qso_logged: "if qso_key in self.logged_qsos".
IsDuplicate(q, keys) == QsoKey(q) \in keys

\* A receive loop that a decode error ends.
AfterDecodeErrorFatal == "done"

\* Where the receive loop stands after a datagram that failed to decode
\* ("except Exception: pass" inside the loop).
AfterDecodeError == "recv"

\* One pass of the receive loop: recvfrom, _parse_packet_header and the
\* dispatch on the type, up to and including the first access to shared
\* state (the registry lookup, the duplicate test, or the file append of
\* _handle_adif_logged).
listen_loop_recv(p) ==
    /\ pc[p] = "recv"
    /\ running
    /\ \E m \in net :
         /\ m.port = p
         /\ net' = net \ {m}
         /\ LET d == m.d
                what == Disposition(d)
                q == parse_qso_logged(d, p)
            IN  /\ llog' = [llog EXCEPT ![p] = Append(@, what)]
                /\ IF what = "drop"
                   THEN /\ pc' = [pc EXCEPT ![p] = AfterDecodeError]
                        /\ UNCHANGED <<cur, ldg, discovered, heard, dropped, adif,
                                       faults>>
                   ELSE IF what = "heartbeat"
                   THEN /\ discovered' =
                              IF d.src \notin DOMAIN wsjtx_ids
                              THEN Append(discovered, <<d.src, d.id>>)
                              ELSE discovered
                        /\ heard' = heard \cup {[port |-> p, src |-> d.src,
                                                  id |-> d.id, t |-> now]}
                        /\ ldg' = [ldg EXCEPT ![p] = d]
                        /\ pc' = [pc EXCEPT ![p] = "hb_store"]
                        /\ UNCHANGED <<cur, dropped, adif, faults>>
                   ELSE IF what = "qso"
                   THEN IF IsDuplicate(q, logged_qsos)
                        THEN /\ dropped' = dropped \cup {q}
                             /\ UNCHANGED <<pc, cur, ldg, discovered, heard, adif,
                                            faults>>
                        ELSE /\ cur' = [cur EXCEPT ![p] = q]
                             /\ pc' = [pc EXCEPT ![p] = "qso_add"]
                             /\ UNCHANGED <<ldg, discovered, heard, dropped, adif,
                                            faults>>
                   ELSE IF what = "adif"
                   THEN /\ \E ok \in BOOLEAN :
                             /\ ok \/ faults > 0
                             /\ adif' = IF ok THEN Append(adif, AdifRaw(p)) ELSE adif
                             /\ faults' = IF ok THEN faults ELSE faults - 1
                        /\ UNCHANGED <<pc, cur, ldg, discovered, heard, dropped>>
                   ELSE UNCHANGED <<pc, cur, ldg, discovered, heard, dropped, adif,
                                    faults>>
    /\ UNCHANGED <<extVars,
                   running, wsjtx_ids, logged_qsos, qso_queue, contest_logger,
                   qso_offset, hdr, relayVars, now, manualLeft,
                   admitted, writes, pushed, delivered>>

\* "while self.running" fails: the receive loop ends.
listen_loop_exit(p) ==
    /\ pc[p] = "recv"
    /\ ~running
    /\ pc' = [pc EXCEPT ![p] = "done"]
    /\ UNCHANGED <<extVars,
                   engineVars, cur, ldg, hdr, relayVars, envVars, histVars>>

\* A registry keyed by the port the listener is bound to.
RegistryKeyConfigured(p, d) == p

\* The key of the registry entry for a heartbeat d received by the listener
\* of port p: source_port of (source_ip, source_port) = addr.
RegistryKey(p, d) == d.src

listen_loop_store(p) ==
    /\ pc[p] = "hb_store"
    /\ wsjtx_ids' = Put(wsjtx_ids, RegistryKey(p, ldg[p]), <<ldg[p].id, now>>)
    /\ wsjtx_order' = IF RegistryKey(p, ldg[p]) \in DOMAIN wsjtx_ids
                      THEN wsjtx_order
                      ELSE Append(wsjtx_order, RegistryKey(p, ldg[p]))
    /\ ldg' = [ldg EXCEPT ![p] = NoDgram]
    /\ pc' = [pc EXCEPT ![p] = "recv"]
    /\ UNCHANGED <<gridVars, appVars, pureVars, hooks, replacement, extEnvVars, extHistVars,
                   running, logged_qsos, qso_queue, contest_logger, qso_offset,
                   adif, cur, hdr, relayVars, envVars, histVars>>

(***************************************************************************)
(* _handle_qso_logged, after the duplicate test                            *)
(***************************************************************************)
\* A handler that queues an admitted contact without writing it first.
AfterAddNoWrite == "put"

\* Where the handler goes after the key is inserted: the location stamper,
\* then _write_qso_to_adif.
AfterAdd == "write"

\* A handler that an exception of the location stamper ends.
AfterStamperErrorAbort == "recv"

\* Where the handler goes when the location stamper raised: the exception
\* is caught and printed, then _write_qso_to_adif.
AfterStamperError == "write"

\* A call of location_stamper or of qso_callback, as the history records
\* it.
HookRec(hook, q, raised) == [hook |-> hook, q |-> q, raised |-> raised]

\* self.logged_qsos.add(qso_key), then the location stamper, which may
\* raise.
handle_qso_logged_add(p) ==
    /\ pc[p] = "qso_add"
    /\ logged_qsos' = logged_qsos \cup {QsoKey(cur[p])}
    /\ admitted' = Append(admitted, cur[p])
    /\ \E raised \in BOOLEAN :
         /\ raised => budget["raise"] > 0
         /\ budget' = IF raised THEN [budget EXCEPT !["raise"] = @ - 1] ELSE budget
         /\ hooks' = hooks \cup {HookRec("location_stamper", cur[p], raised)}
         /\ pc' = [pc EXCEPT ![p] = IF raised THEN AfterStamperError ELSE AfterAdd]
    /\ UNCHANGED <<wsjtx_order, gridVars, appVars, procs, extHistVars, pureVars,
                   replacement,
                   running, wsjtx_ids, qso_queue, contest_logger, qso_offset,
                   adif, cur, ldg, hdr, relayVars, envVars, dropped, writes,
                   pushed, delivered, discovered, heard, llog>>

\* A handler that a failed write ends.
AfterWriteAbortOnFailure(t) ==
    IF t = GUI THEN "idle"
    ELSE IF \E i \in 1..Len(adif') : adif'[i] = cur[t] THEN "put" ELSE "recv"

\* Where a thread goes when _write_qso_to_adif returns.
AfterWrite(t) == IF t = GUI THEN "idle" ELSE "put"

\* _write_qso_to_adif, first half: write_header = not os.path.exists(path).
write_qso_to_adif_check(t) ==
    /\ pc[t] = "write"
    /\ hdr' = [hdr EXCEPT ![t] = (adif = <<>>)]
    /\ writes' = writes \cup {cur[t]}
    /\ pc' = [pc EXCEPT ![t] = "append"]
    /\ UNCHANGED <<extVars,
                   engineVars, cur, ldg, relayVars, envVars, admitted, dropped,
                   pushed, delivered, discovered, heard, llog>>

\* _write_qso_to_adif, second half: open(path, 'a'), the header if
\* write_header, the record.  An I/O error is caught and printed.
write_qso_to_adif_append(t) ==
    /\ pc[t] = "append"
    /\ \E ok \in BOOLEAN :
         /\ ok \/ faults > 0
         /\ adif' = IF ok
                    THEN (IF hdr[t] THEN Append(adif, AdifHeader) ELSE adif)
                         \o <<cur[t]>>
                    ELSE adif
         /\ faults' = IF ok THEN faults ELSE faults - 1
    /\ hdr' = [hdr EXCEPT ![t] = FALSE]
    /\ pc' = [pc EXCEPT ![t] = AfterWrite(t)]
    /\ cur' = IF t = GUI THEN [cur EXCEPT ![t] = NoQso] ELSE cur
    /\ UNCHANGED <<extVars,
                   running, wsjtx_ids, logged_qsos, qso_queue, contest_logger,
                   qso_offset, ldg, relayVars, net, now, manualLeft,
                   histVars>>

\* self.qso_queue.put(qso_data)
handle_qso_logged_put(p) ==
    /\ pc[p] = "put"
    /\ qso_queue' = Append(qso_queue, cur[p])
    /\ pushed' = Append(pushed, cur[p])
    /\ pc' = [pc EXCEPT ![p] = "callback"]
    /\ UNCHANGED <<extVars,
                   running, wsjtx_ids, logged_qsos, contest_logger, qso_offset,
                   adif, cur, ldg, hdr, relayVars, envVars, admitted, dropped,
                   writes, delivered, discovered, heard, llog>>

\* self.qso_callback(qso_data), whose exception is caught and printed; back
\* to the receive loop.
handle_qso_logged_callback(p) ==
    /\ pc[p] = "callback"
    /\ \E raised \in BOOLEAN :
         /\ raised => budget["raise"] > 0
         /\ budget' = IF raised THEN [budget EXCEPT !["raise"] = @ - 1] ELSE budget
         /\ hooks' = hooks \cup {HookRec("qso_callback", cur[p], raised)}
    /\ cur' = [cur EXCEPT ![p] = NoQso]
    /\ pc' = [pc EXCEPT ![p] = "recv"]
    /\ UNCHANGED <<wsjtx_order, gridVars, appVars, procs, extHistVars, pureVars,
                   replacement,
                   engineVars, ldg, hdr, relayVars, envVars, histVars>>

(***************************************************************************)
(* Manual entry (GUI thread): CoPilotApp.log_manual_qso / _gc_log_qso      *)
(***************************************************************************)
\* Where the GUI thread goes after queue_qso_for_relay: it stamps the
\* location and calls _write_qso_to_adif.
AfterManualQueue == "write"

\* A manual entry that records its key in the dedup set.
log_manual_qso_keyed(q) ==
    /\ pc[GUI] = "idle"
    /\ manualLeft > 0
    /\ manualLeft' = manualLeft - 1
    /\ logged_qsos' = logged_qsos \cup {QsoKey(q)}
    /\ qso_queue' = Append(qso_queue, q)
    /\ pushed' = Append(pushed, q)
    /\ cur' = [cur EXCEPT ![GUI] = q]
    /\ pc' = [pc EXCEPT ![GUI] = AfterManualQueue]
    /\ UNCHANGED <<extVars,
                   running, wsjtx_ids, contest_logger, qso_offset,
                   adif, ldg, hdr, relayVars, net, now, faults,
                   admitted, dropped, writes, delivered, discovered, heard, llog>>

\* self.radio_updater.queue_qso_for_relay(qso_data)
log_manual_qso(q) ==
    /\ pc[GUI] = "idle"
    /\ manualLeft > 0
    /\ manualLeft' = manualLeft - 1
    /\ qso_queue' = Append(qso_queue, q)
    /\ pushed' = Append(pushed, q)
    /\ cur' = [cur EXCEPT ![GUI] = q]
    /\ pc' = [pc EXCEPT ![GUI] = AfterManualQueue]
    /\ UNCHANGED <<extVars,
                   running, wsjtx_ids, logged_qsos, contest_logger, qso_offset,
                   adif, ldg, hdr, relayVars, net, now, faults,
                   admitted, dropped, writes, delivered, discovered, heard, llog>>

(***************************************************************************)
(* Relay worker: _relay_loop                                               *)
(***************************************************************************)
\* A worker whose loop does not test the flag ("while True").
relay_loop_check_forever ==
    /\ rpc = "loop"
    /\ rpc' = "get"
    /\ UNCHANGED <<extVars,
                   engineVars, threadVars, rcur, inProgress, envVars, histVars>>

\* "while self.running"
relay_loop_check ==
    /\ rpc = "loop"
    /\ rpc' = IF running THEN "get" ELSE "done"
    /\ UNCHANGED <<extVars,
                   engineVars, threadVars, rcur, inProgress, envVars, histVars>>

\* A counter that is never advanced.
NextOffsetStuck(n) == n

\* A counter that is reset one step early ("if qso_offset >= 59").
NextOffsetEarly(n) == IF n + 1 >= OffsetWrap THEN 0 ELSE n + 1

\* qso_offset += 1; if qso_offset > 59: qso_offset = 0
NextOffset(n) == IF n + 1 > OffsetWrap THEN 0 ELSE n + 1

\* self.qso_queue.get on a non-empty queue.Queue: <<the item, the rest>>.
QueueGet(queue) == <<Head(queue), Tail(queue)>>

\* The set_logger calls made so far.
NumSwitches == Cardinality({k \in 1..Len(calls) : calls[k].op = "set_logger"})

\* A worker that delivers to the logger it was constructed with.
AdapterOfIgnoringSwitch(logger) == "n1mm"

\* "if self.contest_logger == 'n3fjp': ... else: ..." (N1MM+ is the default).
AdapterOf(logger) == IF logger = "n3fjp" THEN "n3fjp" ELSE "n1mm"

\* A worker that hands each item to a delivery of its own and takes the
\* next item without waiting for the delivery to return.
relay_loop_get_no_wait ==
    /\ rpc \in {"get", "send"}
    /\ qso_queue # <<>>
    /\ qso_queue' = Tail(qso_queue)
    /\ rcur' = [q |-> [Head(qso_queue) EXCEPT !.offset = qso_offset],
                target |-> AdapterOf(contest_logger), logger |-> contest_logger,
                sw |-> NumSwitches]
    /\ qso_offset' = IF qso_offset + 1 > OffsetWrap THEN 0 ELSE qso_offset + 1
    /\ inProgress' = inProgress + 1
    /\ rpc' = "send"
    /\ UNCHANGED <<extVars,
                   running, wsjtx_ids, logged_qsos, contest_logger, adif,
                   threadVars, envVars, histVars>>

\* self.qso_queue.get(timeout=1.0): an item, or the timeout and back to the
\* loop test.  With an item: _time_offset is set and the counter advances.
relay_loop_get ==
    /\ rpc = "get"
    /\ IF qso_queue = <<>>
       THEN /\ rpc' = "loop"
            /\ UNCHANGED <<qso_queue, qso_offset, rcur>>
       ELSE /\ qso_queue' = QueueGet(qso_queue)[2]
            /\ rcur' = [rcur EXCEPT !.q = [QueueGet(qso_queue)[1]
                                             EXCEPT !.offset = qso_offset]]
            /\ qso_offset' = NextOffset(qso_offset)
            /\ rpc' = "dispatch"
    /\ UNCHANGED <<extVars, inProgress,
                   running, wsjtx_ids, logged_qsos, contest_logger, adif,
                   threadVars, envVars, histVars>>

\* The worker reads self.contest_logger and calls the adapter it names.
relay_loop_dispatch ==
    /\ rpc = "dispatch"
    /\ rcur' = [rcur EXCEPT !.target = AdapterOf(contest_logger),
                            !.logger = contest_logger,
                            !.sw = NumSwitches]
    /\ inProgress' = inProgress + 1
    /\ rpc' = "send"
    /\ UNCHANGED <<extVars, engineVars, threadVars, envVars, histVars>>

\* The dates and times of the record an adapter builds, for a contact of
\* day 0 whose time on is its time off (as test_qso_relay builds it).
\* _build_adif_for_n1mm: datetime_off plus _time_offset seconds, as
\* qso_date (%Y%m%d), time_on and time_off (%H%M%S).
N1mmTimes(q) ==
    LET adjusted_time == q.msOff \div 1000 + q.offset
    IN  [date |-> adjusted_time \div 86400,
         time_on |-> adjusted_time % 86400,
         time_off |-> adjusted_time % 86400]
\* _send_qso_to_n3fjp: DATE (%Y/%m/%d), TIMEON and TIMEOFF (%H:%M) of
\* datetime_on and datetime_off; _time_offset is not read.
N3fjpTimes(q) ==
    [date |-> 0, time_on |-> q.msOff \div 60000, time_off |-> q.msOff \div 60000]
RecordTimes(target, q) ==
    IF target = "n3fjp" THEN N3fjpTimes(q) ELSE N1mmTimes(q)

\* A worker that takes the next contact at once after a failed delivery.
AfterSendNoDelayOnFailure(ok) == IF ok THEN "sleep" ELSE "loop"

\* A worker that gives up after a failed delivery.
AfterSendStopOnFailure(ok) == IF ok THEN "sleep" ELSE "done"

\* Where the worker goes when the adapter has returned (success or failure).
AfterSend(ok) == "sleep"

\* What can happen to the TCP connection of one delivery.
Outcomes == {"sent", "refused", "timeout"}

\* An adapter that catches a refused connection only.
send_qso_to_n1mm_leaky(outcome) ==
    IF outcome = "sent" THEN "True"
    ELSE IF outcome = "refused" THEN "False" ELSE "raise"

\* _send_qso_to_n1mm: True after sendall, False after ConnectionRefusedError,
\* socket.timeout or any other exception.
send_qso_to_n1mm(outcome) == IF outcome = "sent" THEN "True" ELSE "False"

\* _send_n3fjp_command: True after sendall (a missing response is not an
\* error), False after ConnectionRefusedError or any other exception.
send_n3fjp_command(outcome) == IF outcome = "sent" THEN "True" ELSE "False"

\* _send_qso_to_n3fjp: the result of _send_n3fjp_command, False if anything
\* raised.
send_qso_to_n3fjp(outcome) ==
    IF send_n3fjp_command(outcome) = "raise" THEN "False"
    ELSE send_n3fjp_command(outcome)

\* Whether the socket of a delivery is closed when the adapter returns.
\* _send_qso_to_n1mm calls sock.close() in a finally clause.
\* _send_n3fjp_command calls sock.close() after the exchange only: when
\* connect or sendall raises, the socket is left to the garbage collector,
\* which may or may not have closed it.
SocketClosed(target, outcome) ==
    IF target = "n1mm" \/ outcome = "sent" THEN {TRUE} ELSE BOOLEAN

\* The adapter returns, or raises into the except clause of _relay_loop;
\* after a return, task_done().
relay_loop_send ==
    /\ rpc = "send"
    /\ \E outcome \in Outcomes, closed \in BOOLEAN :
         LET result == IF rcur.target = "n3fjp" THEN send_qso_to_n3fjp(outcome)
                       ELSE send_qso_to_n1mm(outcome)
             ok == (result = "True")
         IN  /\ outcome = "sent" \/ faults > 0
             /\ closed \in SocketClosed(rcur.target, outcome)
             /\ faults' = IF outcome = "sent" THEN faults ELSE faults - 1
             /\ delivered' = Append(delivered,
                                 [q |-> rcur.q, target |-> rcur.target,
                                  logger |-> rcur.logger, sw |-> rcur.sw,
                                  ok |-> ok,
                                  outcome |-> outcome, result |-> result,
                                  times |-> RecordTimes(rcur.target, rcur.q),
                                  closed |-> closed])
             /\ rpc' = AfterSend(ok)
    /\ inProgress' = inProgress - 1
    /\ UNCHANGED <<extVars, engineVars, threadVars, rcur, net, now, manualLeft,
                   admitted, dropped, writes, pushed, discovered, heard, llog>>

\* time.sleep(0.5)
relay_loop_sleep ==
    /\ rpc = "sleep"
    /\ rpc' = "loop"
    /\ UNCHANGED <<extVars,
                   engineVars, threadVars, rcur, inProgress, envVars, histVars>>

(***************************************************************************)
(* stop_listener                                                           *)
(***************************************************************************)
stop_listener ==
    /\ running
    /\ running' = FALSE
    /\ UNCHANGED <<extVars, wsjtx_ids, logged_qsos, qso_queue, contest_logger,
                   qso_offset, adif, threadVars, relayVars, envVars, histVars>>

(***************************************************************************)
(* The contact pipeline: listeners, manual entry, relay worker             *)
(***************************************************************************)
Listener(p) ==
    \/ listen_loop_recv(p)
    \/ handle_qso_logged_add(p)
    \/ write_qso_to_adif_check(p)
    \/ write_qso_to_adif_append(p)
    \/ handle_qso_logged_put(p)
    \/ handle_qso_logged_callback(p)

Manual ==
    \/ \E q \in ManualMenu : log_manual_qso(q)
    \/ write_qso_to_adif_check(GUI)
    \/ write_qso_to_adif_append(GUI)

Relay ==
    \/ relay_loop_check
    \/ relay_loop_get
    \/ relay_loop_dispatch
    \/ relay_loop_send
    \/ relay_loop_sleep

Next ==
    \/ \E p \in Ports : Listener(p)
    \/ Manual
    \/ Relay

Spec == Init /\ [][Next]_vars

(***************************************************************************)
(* The pipeline with shutdown; the relay worker is a thread of its own and *)
(* is scheduled as long as it can take a step.                             *)
(***************************************************************************)
InitLive ==
    /\ InitEngine
    /\ QuietEnv
    /\ net \in Flights(QsoMenu, MaxDatagrams)
    /\ manualLeft = 0
    /\ faults = MaxFaults

ListenerLive(p) ==
    \/ Listener(p)
    \/ listen_loop_exit(p)

NextLive ==
    \/ \E p \in Ports : ListenerLive(p)
    \/ Relay
    \/ stop_listener

LiveSpec == InitLive /\ [][NextLive]_vars /\ WF_vars(Relay)

(***************************************************************************)
(* A long run of manual entries for one callsign (Grid Corner logging of   *)
(* one station band after band), long enough for the offset counter to     *)
(* come round.                                                             *)
(***************************************************************************)

InitOffsets ==
    /\ InitEngine
    /\ QuietEnv
    /\ net = {}
    /\ manualLeft = MaxPops
    /\ faults = 0

NextOffsets ==
    \/ Manual
    \/ Relay

SpecOffsets == InitOffsets /\ [][NextOffsets]_vars

\* The same run with a write or a delivery that may fail.
InitWrap ==
    /\ InitEngine
    /\ QuietEnv
    /\ net = {}
    /\ manualLeft = MaxPops
    /\ faults = MaxFaults

SpecWrap == InitWrap /\ [][NextOffsets]_vars

(***************************************************************************)
(* The three simultaneous contacts of stress_test_simultaneous             *)
(***************************************************************************)
InitBurst ==
    /\ InitEngine
    /\ QuietEnv
    /\ net = BurstMenu
    /\ manualLeft = 0
    /\ faults = MaxFaults

NextBurst ==
    \/ \E p \in Ports : Listener(p)
    \/ Relay

SpecBurst == InitBurst /\ [][NextBurst]_vars

(***************************************************************************)
(* The listeners and the endpoint registry: heartbeats, malformed and      *)
(* ignored datagrams, the clock and shutdown                               *)
(***************************************************************************)
\* time.time() advances.
tick ==
    /\ now < StartTime + MaxTime
    /\ now' = now + 1
    /\ UNCHANGED <<extVars,
                   engineVars, threadVars, relayVars, net, manualLeft, faults,
                   histVars>>

InitRegistry ==
    /\ InitEngine
    /\ QuietEnv
    /\ net \in Flights(ListenMenu, MaxDatagrams)
    /\ manualLeft = 0
    /\ faults = 0

ListenerRegistry(p) ==
    \/ listen_loop_recv(p)
    \/ listen_loop_store(p)
    \/ listen_loop_exit(p)

NextRegistry ==
    \/ \E p \in Ports : ListenerRegistry(p)
    \/ tick
    \/ stop_listener

SpecRegistry == InitRegistry /\ [][NextRegistry]_vars

(***************************************************************************)
(* The status check of the application: CoPilotApp._check_wsjt_status      *)
(***************************************************************************)
\* timeout = 30: seconds without heartbeat before an instance counts as dead.
Timeout == 30

\* str.lower(), str.replace('-', ' ').replace('_', ' ') and str.split().
UpperCase == "ABCDEFGHIJKLMNOPQRSTUVWXYZ"
LowerCase == "abcdefghijklmnopqrstuvwxyz"
CharAt(s, i) == SubSeq(s, i, i)
LowerChar(c) ==
    IF \E i \in 1..Len(UpperCase) : CharAt(UpperCase, i) = c
    THEN CharAt(LowerCase, CHOOSE i \in 1..Len(UpperCase) : CharAt(UpperCase, i) = c)
    ELSE c
RECURSIVE Lower(_)
Lower(s) == IF Len(s) = 0 THEN ""
            ELSE LowerChar(CharAt(s, 1)) \o Lower(SubSeq(s, 2, Len(s)))
RECURSIVE Unhyphen(_)
Unhyphen(s) ==
    IF Len(s) = 0 THEN ""
    ELSE (IF CharAt(s, 1) \in {"-", "_"} THEN " " ELSE CharAt(s, 1))
         \o Unhyphen(SubSeq(s, 2, Len(s)))
\* str.split(): the maximal runs of characters other than blanks.
Words(s) ==
    { SubSeq(s, p[1], p[2]) :
        p \in { q \in (1..Len(s)) \X (1..Len(s)) :
                  /\ q[1] <= q[2]
                  /\ \A k \in q[1]..q[2] : CharAt(s, k) # " "
                  /\ (q[1] = 1 \/ CharAt(s, q[1] - 1) = " ")
                  /\ (q[2] = Len(s) \/ CharAt(s, q[2] + 1) = " ") } }
\* "part in wsjtx_id_lower"
Contains(s, part) ==
    \E i \in 1..(Len(s) - Len(part) + 1) : SubSeq(s, i, i + Len(part) - 1) = part

\* The 'name' of the configured instance with udp_port c.
InstName(c) ==
    IF c = 2237 THEN "IC-7610 (6m/HF)"
    ELSE IF c = 2238 THEN "IC-9700 (2m/70cm/23cm/10G)"
    ELSE "IC-7300 (1.25m/33cm xvtr)"

\* name_parts of the instance configured on each port.
NameParts == [c \in Ports |-> Words(Unhyphen(Lower(InstName(c))))]

\* "matched": the registry entry (discovered_port, wsjtx_id) belongs to the
\* instance configured on port c.
Matched(discovered_port, wsjtx_id, c) ==
    \/ discovered_port = c
    \/ \E part \in NameParts[c] : Len(part) >= 3 /\ Contains(Lower(wsjtx_id), part)

\* A status check died with "dictionary changed size during iteration":
\* root.after was not reached and no later check is scheduled.
CheckDied == \E k \in 1..Len(calls) : calls[k].op = "check" /\ calls[k].result = "error"

\* now = time.time(); the for loop over self.radio_updater.wsjtx_ids.items()
\* takes its iterator.
check_wsjt_status_begin ==
    /\ pc[GUI] = "idle"
    /\ budget["check"] > 0
    /\ ~CheckDied
    /\ budget' = [budget EXCEPT !["check"] = @ - 1]
    /\ iter' = [iter EXCEPT ![GUI] = [pos |-> 0, used |-> Len(wsjtx_order),
                                      t |-> now, snap |-> wsjtx_ids]]
    /\ pc' = [pc EXCEPT ![GUI] = "chk_iter"]
    /\ UNCHANGED <<engineVars, cur, ldg, hdr, relayVars, envVars, histVars,
                   wsjtx_order, current_grid, jt9_pids, wpc, wcur, garg,
                   appVars, pureVars, hooks, replacement, procs, extHistVars>>

\* The label colours after "Update status labels".
LabelAfter(c, last, t) ==
    IF last = 0 THEN "red"
    ELSE IF t - last > Timeout THEN "red"
    ELSE "green"

\* One step of the for loop: the iterator raises if the dict changed size,
\* yields the next entry, or is exhausted and the labels are updated.
check_wsjt_status_next ==
    /\ pc[GUI] = "chk_iter"
    /\ LET it == iter[GUI] IN
       IF it.used # Len(wsjtx_order)
       THEN /\ calls' = Append(calls, CallRec("check", "", "error", <<>>))
            /\ iter' = [iter EXCEPT ![GUI] = NoIter]
            /\ pc' = [pc EXCEPT ![GUI] = "idle"]
            /\ UNCHANGED <<appVars, pureVars, hooks, replacement, checks>>
       ELSE IF it.pos < it.used
       THEN LET port == wsjtx_order[it.pos + 1]
                entry == wsjtx_ids[port]
            IN  /\ wsjt_last_seen' =
                      [c \in Ports |-> IF Matched(port, entry[1], c)
                                       THEN entry[2] ELSE wsjt_last_seen[c]]
                /\ iter' = [iter EXCEPT ![GUI].pos = @ + 1]
                /\ UNCHANGED <<pc, label, checks, calls>>
       ELSE /\ label' = [c \in Ports |-> LabelAfter(c, wsjt_last_seen[c], it.t)]
            /\ checks' = Append(checks, [t |-> it.t, label |-> label',
                                         last |-> wsjt_last_seen,
                                         seen |-> it.snap,
                                         seenEnd |-> wsjtx_ids])
            /\ calls' = Append(calls, CallRec("check", "", "ok", <<>>))
            /\ iter' = [iter EXCEPT ![GUI] = NoIter]
            /\ pc' = [pc EXCEPT ![GUI] = "idle"]
            /\ UNCHANGED wsjt_last_seen
    /\ UNCHANGED <<engineVars, cur, ldg, hdr, relayVars, envVars, histVars,
                   wsjtx_order, current_grid, jt9_pids, wpc, wcur, garg,
                   pureVars, hooks, replacement, procs, budget, sentLoc, sentLogger, polls>>

\* A WSJT-X instance sends a heartbeat.
HeartbeatSources ==
    { [port |-> 2237, d |-> HeartbeatOf("WSJT-X - ic7610", 61234)],
      [port |-> 2237, d |-> HeartbeatOf("WSJT-X - ic7610", 61235)] }

send_heartbeat ==
    /\ budget["heartbeat"] > 0
    /\ \E m \in HeartbeatSources :
         /\ m \notin net
         /\ net' = net \cup {m}
    /\ budget' = [budget EXCEPT !["heartbeat"] = @ - 1]
    /\ UNCHANGED <<engineVars, threadVars, relayVars, now, manualLeft, faults,
                   histVars, wsjtx_order, gridVars, appVars, pureVars, hooks, replacement, procs, extHistVars>>

\* Time passes: one second, or the timeout.
elapse ==
    /\ budget["elapse"] > 0
    /\ \E d \in {1, Timeout} : now' = now + d
    /\ budget' = [budget EXCEPT !["elapse"] = @ - 1]
    /\ UNCHANGED <<engineVars, threadVars, relayVars, net, manualLeft, faults,
                   histVars, wsjtx_order, gridVars, appVars, pureVars, hooks, replacement, procs, extHistVars>>

InitStatus ==
    /\ InitEngine
    /\ net = {}
    /\ manualLeft = 0
    /\ faults = 0
    /\ procs = {}
    /\ budget = [NoBudget EXCEPT !["heartbeat"] = MaxHeartbeats,
                                 !["check"] = MaxChecks,
                                 !["elapse"] = MaxElapses]

StatusCheck == check_wsjt_status_begin \/ check_wsjt_status_next

NextStatus ==
    \/ \E p \in Ports : listen_loop_recv(p) \/ listen_loop_store(p)
    \/ StatusCheck
    \/ send_heartbeat
    \/ elapse

SpecStatus == InitStatus /\ [][NextStatus]_vars

(***************************************************************************)
(* Grid updates: update_grid, and the jt9 monitor's replay                 *)
(***************************************************************************)
\* Grid squares the operator moves through.
Grids == {"EM15", "EM16"}
\* Process ids tasklist may list for jt9.exe.
Pids == {4001, 4002}

\* _send_wsjt_location to the endpoint at position pos of the registry,
\* as the history records it.  n is the call or poll the send belongs to.
LocationSend(pos, grid, by, n, ok) ==
    [port |-> wsjtx_order[pos], id |-> wsjtx_ids[wsjtx_order[pos]][1],
     grid |-> grid, by |-> by, n |-> n, ok |-> ok]

\* The update_grid calls begun so far.
NumGridCalls == Cardinality({k \in 1..Len(calls) : calls[k].op = "update_grid"})

\* The call on the GUI thread that is in progress ends with this result.
EndCall(result) == [calls EXCEPT ![Len(calls)].result = result]

\* self.current_grid = grid_square; the first loop over self.wsjtx_ids.items()
\* (the one that prints the discovered instances) takes its iterator.
update_grid_begin ==
    /\ pc[GUI] = "idle"
    /\ budget["grid"] > 0
    /\ \E g \in Grids :
         /\ current_grid' = g
         /\ garg' = g
         /\ calls' = Append(calls, CallRec("update_grid", g, "running",
                                           {wsjtx_order[i] : i \in 1..Len(wsjtx_order)}))
    /\ budget' = [budget EXCEPT !["grid"] = @ - 1]
    /\ iter' = [iter EXCEPT ![GUI] = [NoIter EXCEPT !.used = Len(wsjtx_order)]]
    /\ pc' = [pc EXCEPT ![GUI] = "ug_print"]
    /\ UNCHANGED <<engineVars, cur, ldg, hdr, relayVars, envVars, histVars,
                   wsjtx_order, jt9_pids, wpc, wcur, appVars, pureVars, hooks, replacement, procs, sentLoc,
                   sentLogger, polls, checks>>

\* One step of the printing loop.  The iterator raises RuntimeError if the
\* dict has changed size: the exception leaves update_grid.  When the loop
\* is exhausted: "if not self.wsjtx_ids", else the sending loop starts.
update_grid_print ==
    /\ pc[GUI] = "ug_print"
    /\ LET it == iter[GUI] IN
       IF it.used # Len(wsjtx_order)
       THEN /\ calls' = EndCall("error")
            /\ iter' = [iter EXCEPT ![GUI] = NoIter]
            /\ garg' = NoGrid
            /\ pc' = [pc EXCEPT ![GUI] = "idle"]
       ELSE IF it.pos < it.used
       THEN /\ iter' = [iter EXCEPT ![GUI].pos = @ + 1]
            /\ UNCHANGED <<calls, garg, pc>>
       ELSE /\ iter' = [iter EXCEPT ![GUI] = [NoIter EXCEPT !.used = Len(wsjtx_order)]]
            /\ pc' = [pc EXCEPT ![GUI] = IF Len(wsjtx_order) = 0
                                         THEN "ug_logger" ELSE "ug_send"]
            /\ UNCHANGED <<calls, garg>>
    /\ UNCHANGED <<engineVars, cur, ldg, hdr, relayVars, envVars, histVars,
                   wsjtx_order, current_grid, jt9_pids, wpc, wcur, appVars, pureVars, hooks, replacement,
                   procs, budget, sentLoc, sentLogger, polls, checks>>

\* One step of the sending loop: _send_wsjt_location to the next endpoint
\* (an exception of the send is caught and printed), or RuntimeError, or
\* the end of the loop.
update_grid_send ==
    /\ pc[GUI] = "ug_send"
    /\ LET it == iter[GUI] IN
       IF it.used # Len(wsjtx_order)
       THEN /\ calls' = EndCall("error")
            /\ iter' = [iter EXCEPT ![GUI] = NoIter]
            /\ garg' = NoGrid
            /\ pc' = [pc EXCEPT ![GUI] = "idle"]
            /\ UNCHANGED <<sentLoc, faults>>
       ELSE IF it.pos < it.used
       THEN /\ \E ok \in BOOLEAN :
                 /\ ok \/ faults > 0
                 /\ faults' = IF ok THEN faults ELSE faults - 1
                 /\ sentLoc' = Append(sentLoc,
                                  LocationSend(it.pos + 1, garg, "update_grid",
                                               NumGridCalls, ok))
            /\ iter' = [iter EXCEPT ![GUI].pos = @ + 1]
            /\ UNCHANGED <<calls, garg, pc>>
       ELSE /\ iter' = [iter EXCEPT ![GUI] = NoIter]
            /\ pc' = [pc EXCEPT ![GUI] = "ug_logger"]
            /\ UNCHANGED <<calls, garg, sentLoc, faults>>
    /\ UNCHANGED <<engineVars, cur, ldg, hdr, relayVars, net, now, manualLeft,
                   histVars, wsjtx_order, current_grid, jt9_pids, wpc, wcur,
                   appVars, pureVars, hooks, replacement, procs, budget, sentLogger, polls, checks>>

\* send_logger_grid: _send_n3fjp_grid if contest_logger is 'n3fjp', else
\* _send_n1mm_roverqth; failures are caught and printed.
update_grid_logger ==
    /\ pc[GUI] = "ug_logger"
    /\ \E ok \in BOOLEAN :
         /\ ok \/ faults > 0
         /\ faults' = IF ok THEN faults ELSE faults - 1
         /\ sentLogger' = Append(sentLogger,
                             [target |-> AdapterOf(contest_logger),
                              logger |-> contest_logger, grid |-> garg,
                              n |-> NumGridCalls, ok |-> ok])
    /\ calls' = EndCall("ok")
    /\ garg' = NoGrid
    /\ pc' = [pc EXCEPT ![GUI] = "idle"]
    /\ UNCHANGED <<engineVars, cur, ldg, hdr, relayVars, net, now, manualLeft,
                   histVars, wsjtx_order, current_grid, jt9_pids, wpc, wcur,
                   iter, appVars, pureVars, hooks, replacement, procs, budget, sentLoc, polls, checks>>

\* _get_jt9_pids: the process ids tasklist lists, or the empty set when
\* tasklist fails (the exception is swallowed).
Samples == {procs} \cup (IF faults > 0 /\ procs # {} THEN {{}} ELSE {})

PollRec(prev, sample, grid, replay, done) ==
    [prev |-> prev, sample |-> sample, grid |-> grid, replay |-> replay,
     done |-> done, error |-> FALSE, ports |-> {}]

\* The initial scan: self.jt9_pids = self._get_jt9_pids()
jt9_monitor_scan ==
    /\ wpc = "scan"
    /\ \E sample \in Samples :
         /\ faults' = IF sample = procs THEN faults ELSE faults - 1
         /\ jt9_pids' = sample
         /\ polls' = Append(polls, PollRec({}, sample, current_grid, FALSE, TRUE))
    /\ wpc' = "loop"
    /\ UNCHANGED <<engineVars, threadVars, relayVars, net, now, manualLeft,
                   histVars, wsjtx_order, current_grid, wcur, iter, garg,
                   appVars, pureVars, hooks, replacement, procs, budget, sentLoc, sentLogger, checks, calls>>

\* "while self.running", time.sleep(3), the sample, and the test
\* "if new_pids and self.current_grid"; without a replay the sample
\* replaces self.jt9_pids at once.
jt9_monitor_poll ==
    /\ wpc = "loop"
    /\ IF ~running
       THEN /\ wpc' = "done"
            /\ UNCHANGED <<faults, wcur, jt9_pids, polls>>
       ELSE /\ Len(polls) <= MaxPolls
            /\ \E sample \in Samples :
                 /\ faults' = IF sample = procs THEN faults ELSE faults - 1
                 /\ wcur' = sample
                 /\ IF sample \ jt9_pids # {} /\ current_grid # NoGrid
                    THEN /\ polls' = Append(polls, PollRec(jt9_pids, sample,
                                                          current_grid, TRUE, FALSE))
                         /\ wpc' = "settle"
                         /\ UNCHANGED jt9_pids
                    ELSE /\ polls' = Append(polls, PollRec(jt9_pids, sample,
                                                          current_grid, FALSE, TRUE))
                         /\ jt9_pids' = sample
                         /\ wpc' = "loop"
    /\ UNCHANGED <<engineVars, threadVars, relayVars, net, now, manualLeft,
                   histVars, wsjtx_order, current_grid, iter, garg, appVars, pureVars, hooks, replacement,
                   procs, budget, sentLoc, sentLogger, checks, calls>>

\* The poll in progress, as the history records it.
EndPoll(done, error) ==
    [polls EXCEPT ![Len(polls)].done = done, ![Len(polls)].error = error]

\* After time.sleep(2): _resend_grid_to_all returns if there is no grid,
\* else its loop over self.wsjtx_ids.items() takes its iterator.
jt9_monitor_settle ==
    /\ wpc = "settle"
    /\ IF current_grid = NoGrid
       THEN /\ jt9_pids' = wcur
            /\ polls' = EndPoll(TRUE, FALSE)
            /\ wpc' = "loop"
            /\ UNCHANGED iter
       ELSE /\ iter' = [iter EXCEPT ![WD] = [NoIter EXCEPT !.used = Len(wsjtx_order)]]
            /\ polls' = [polls EXCEPT ![Len(polls)].ports =
                            {wsjtx_order[i] : i \in 1..Len(wsjtx_order)}]
            /\ wpc' = "resend"
            /\ UNCHANGED jt9_pids
    /\ UNCHANGED <<engineVars, threadVars, relayVars, envVars, histVars,
                   wsjtx_order, current_grid, wcur, garg, appVars, pureVars, hooks, replacement, procs,
                   budget, sentLoc, sentLogger, checks, calls>>

\* A replay that sends the grid that was current when the new process id
\* was detected.
jt9_monitor_resend_stale ==
    /\ wpc = "resend"
    /\ LET it == iter[WD] IN
       IF it.used # Len(wsjtx_order)
       THEN /\ polls' = EndPoll(FALSE, TRUE)
            /\ iter' = [iter EXCEPT ![WD] = NoIter]
            /\ wpc' = "loop"
            /\ UNCHANGED <<jt9_pids, sentLoc, faults>>
       ELSE IF it.pos < it.used
       THEN /\ \E ok \in BOOLEAN :
                 /\ ok \/ faults > 0
                 /\ faults' = IF ok THEN faults ELSE faults - 1
                 /\ sentLoc' = Append(sentLoc,
                                  LocationSend(it.pos + 1, polls[Len(polls)].grid, "watchdog",
                                               Len(polls), ok))
            /\ iter' = [iter EXCEPT ![WD].pos = @ + 1]
            /\ UNCHANGED <<jt9_pids, polls, wpc>>
       ELSE /\ jt9_pids' = wcur
            /\ polls' = EndPoll(TRUE, FALSE)
            /\ iter' = [iter EXCEPT ![WD] = NoIter]
            /\ wpc' = "loop"
            /\ UNCHANGED <<sentLoc, faults>>
    /\ UNCHANGED <<engineVars, threadVars, relayVars, net, now, manualLeft,
                   histVars, wsjtx_order, current_grid, wcur, garg, appVars, pureVars, hooks, replacement,
                   procs, budget, sentLogger, checks, calls>>

\* One step of the loop of _resend_grid_to_all: a send of self.current_grid
\* to the next endpoint (an exception of the send is caught), or the end of
\* the loop and "self.jt9_pids = current_pids", or RuntimeError: it is
\* caught by the monitor loop, which skips the assignment and sleeps.
jt9_monitor_resend ==
    /\ wpc = "resend"
    /\ LET it == iter[WD] IN
       IF it.used # Len(wsjtx_order)
       THEN /\ polls' = EndPoll(FALSE, TRUE)
            /\ iter' = [iter EXCEPT ![WD] = NoIter]
            /\ wpc' = "loop"
            /\ UNCHANGED <<jt9_pids, sentLoc, faults>>
       ELSE IF it.pos < it.used
       THEN /\ \E ok \in BOOLEAN :
                 /\ ok \/ faults > 0
                 /\ faults' = IF ok THEN faults ELSE faults - 1
                 /\ sentLoc' = Append(sentLoc,
                                  LocationSend(it.pos + 1, current_grid, "watchdog",
                                               Len(polls), ok))
            /\ iter' = [iter EXCEPT ![WD].pos = @ + 1]
            /\ UNCHANGED <<jt9_pids, polls, wpc>>
       ELSE /\ jt9_pids' = wcur
            /\ polls' = EndPoll(TRUE, FALSE)
            /\ iter' = [iter EXCEPT ![WD] = NoIter]
            /\ wpc' = "loop"
            /\ UNCHANGED <<sentLoc, faults>>
    /\ UNCHANGED <<engineVars, threadVars, relayVars, net, now, manualLeft,
                   histVars, wsjtx_order, current_grid, wcur, garg, appVars, pureVars, hooks, replacement,
                   procs, budget, sentLogger, checks, calls>>

\* WSJT-X restarts its decoder, or a decoder exits: the set of jt9.exe
\* processes changes.
jt9_restart ==
    /\ budget["restart"] > 0
    /\ \E ps \in SUBSET Pids :
         /\ ps # procs
         /\ procs' = ps
    /\ budget' = [budget EXCEPT !["restart"] = @ - 1]
    /\ UNCHANGED <<engineVars, threadVars, relayVars, envVars, histVars,
                   wsjtx_order, gridVars, appVars, pureVars, hooks, replacement, extHistVars>>

UpdateGrid ==
    \/ update_grid_begin
    \/ update_grid_print
    \/ update_grid_send
    \/ update_grid_logger

Jt9Monitor ==
    \/ jt9_monitor_scan
    \/ jt9_monitor_poll
    \/ jt9_monitor_settle
    \/ jt9_monitor_resend

InitGrid ==
    /\ InitEngine
    /\ net \in Flights(HeartbeatMenu, MaxDatagrams)
    /\ manualLeft = 0
    /\ faults = MaxFaults
    /\ procs \in {{}, {4001}}
    /\ budget = [NoBudget EXCEPT !["grid"] = MaxGrids, !["restart"] = MaxRestarts]

NextGrid ==
    \/ \E p \in Ports : listen_loop_recv(p) \/ listen_loop_store(p)
    \/ UpdateGrid
    \/ Jt9Monitor
    \/ jt9_restart

SpecGrid == InitGrid /\ [][NextGrid]_vars

(***************************************************************************)
(* Shutdown: every thread of the engine, a grid update with no endpoint    *)
(* known, and stop_listener; jt9.exe is running and tasklist may fail      *)
(* once.  Every loop is a thread of its own whose                          *)
(* blocking calls (recvfrom, Queue.get, sleep) all time out, so each       *)
(* thread is scheduled as long as it can take a step.                      *)
(***************************************************************************)
InitStop ==
    /\ InitEngine
    /\ net \in Flights(QsoMenu, MaxStopDatagrams)
    /\ manualLeft = 0
    /\ faults = MaxFaults
    /\ procs = {4001}
    /\ budget = [NoBudget EXCEPT !["grid"] = MaxGrids]

NextStop ==
    \/ \E p \in Ports : ListenerLive(p)
    \/ Relay
    \/ Jt9Monitor
    \/ update_grid_begin
    \/ update_grid_print
    \/ update_grid_logger
    \/ stop_listener

SpecStop ==
    /\ InitStop
    /\ [][NextStop]_vars
    /\ \A p \in Ports : WF_vars(ListenerLive(p))
    /\ WF_vars(Relay)
    /\ WF_vars(Jt9Monitor)

(***************************************************************************)
(* The string codec: _encode_qstring and _decode_qstring, on bytes         *)
(***************************************************************************)
\* Texts are sequences of code points, data are sequences of bytes.  The
\* code points studied: "A" (one byte in UTF-8) and U+00E9 (two bytes).
CodePoints == {65, 233}
\* The bytes a payload is drawn from: "A", the two bytes of U+00E9, which
\* are also a lead byte without its continuation and a continuation byte
\* without its lead.
PayloadBytes == {65, 195, 169}

SeqsUpTo(S, n) == UNION {[1..k -> S] : k \in 0..n}

\* struct.pack('>I', n) for n given as its two 16-bit halves.
PackU32(n) == <<n[1] \div 256, n[1] % 256, n[2] \div 256, n[2] % 256>>
\* struct.unpack('>I', b)[0], as two 16-bit halves.
UnpackU32(b) == <<b[1] * 256 + b[2], b[3] * 256 + b[4]>>
\* 0xFFFFFFFF
NullLength == <<65535, 65535>>

\* str.encode('utf-8') for code points below U+0800.
Utf8Char(c) == IF c < 128 THEN <<c>> ELSE <<192 + (c \div 64), 128 + (c % 64)>>
RECURSIVE Utf8Encode(_)
Utf8Encode(text) ==
    IF text = <<>> THEN <<>> ELSE Utf8Char(Head(text)) \o Utf8Encode(Tail(text))

\* bytes.decode('utf-8'): the text, or ok = FALSE for UnicodeDecodeError.
\* Lead bytes of three- and four-byte sequences are outside PayloadBytes.
RECURSIVE Utf8Decode(_)
Utf8Decode(b) ==
    IF b = <<>> THEN [ok |-> TRUE, text |-> <<>>]
    ELSE IF b[1] < 128
    THEN LET rest == Utf8Decode(Tail(b))
         IN  [ok |-> rest.ok, text |-> <<b[1]>> \o rest.text]
    ELSE IF b[1] >= 194 /\ b[1] <= 223 /\ Len(b) >= 2 /\ b[2] >= 128 /\ b[2] <= 191
    THEN LET rest == Utf8Decode(Tail(Tail(b)))
         IN  [ok |-> rest.ok,
              text |-> <<(b[1] - 192) * 64 + (b[2] - 128)>> \o rest.text]
    ELSE [ok |-> FALSE, text |-> <<>>]

\* A text argument: None, or a str.
NoneText == [none |-> TRUE, chars |-> <<>>]
Str(chars) == [none |-> FALSE, chars |-> chars]

\* _encode_qstring(text)
encode_qstring(text) ==
    IF text.none \/ text.chars = <<>>
    THEN PackU32(NullLength)
    ELSE LET encoded == Utf8Encode(text.chars)
         IN  PackU32(<<0, Len(encoded)>>) \o encoded

\* An exception leaves the function.
Raised == [ok |-> FALSE, value |-> <<>>, offset |-> 0]

\* _decode_qstring(data, offset): (string, new_offset), or an exception.
decode_qstring(data, offset) ==
    IF Len(data) < offset + 4 THEN Raised
    ELSE LET length == UnpackU32(SubSeq(data, offset + 1, offset + 4))
         IN  IF length = NullLength
             THEN [ok |-> TRUE, value |-> <<>>, offset |-> offset + 4]
             ELSE IF length[1] > 0 \/ Len(data) < offset + 4 + length[2]
             THEN Raised
             ELSE LET string == Utf8Decode(SubSeq(data, offset + 5,
                                                  offset + 4 + length[2]))
                  IN  IF string.ok
                      THEN [ok |-> TRUE, value |-> string.text,
                            offset |-> offset + 4 + length[2]]
                      ELSE Raised

\* The texts given to the encoder.
TextMenu == {NoneText} \cup {Str(s) : s \in SeqsUpTo(CodePoints, MaxText)}

\* The data given to the decoder: a length (0..MaxText, the null length, or
\* one that is too large), or a cut length, then a payload; read at offset
\* 0, or at offset 1 behind a byte that belongs to something else.
LengthMenu ==
    {PackU32(<<0, n>>) : n \in 0..MaxText}
        \cup {PackU32(NullLength), PackU32(<<1, 0>>), <<0, 0>>}
DataMenu ==
    {[data |-> pad \o len \o payload, offset |-> Len(pad)] :
        pad \in {<<>>, <<7>>}, len \in LengthMenu,
        payload \in SeqsUpTo(PayloadBytes, MaxText)}

encode_qstring_call ==
    /\ input.fn = "encode"
    /\ output = NoOutput
    /\ output' = [ok |-> TRUE, value |-> encode_qstring(input.arg), offset |-> 0]
    /\ UNCHANGED <<engineVars, threadVars, relayVars, envVars, histVars,
                   wsjtx_order, gridVars, appVars, extEnvVars, extHistVars,
                   input, hooks, replacement>>

decode_qstring_call ==
    /\ input.fn = "decode"
    /\ output = NoOutput
    /\ output' = decode_qstring(input.arg.data, input.arg.offset)
    /\ UNCHANGED <<engineVars, threadVars, relayVars, envVars, histVars,
                   wsjtx_order, gridVars, appVars, extEnvVars, extHistVars,
                   input, hooks, replacement>>

\* The engine at rest; the function under study has not been called.
InitPure ==
    /\ InitCore
    /\ QuietEnv
    /\ net = {}
    /\ manualLeft = 0
    /\ faults = 0
    /\ output = NoOutput

InitCodec ==
    /\ InitPure
    /\ input \in {[fn |-> "encode", arg |-> t] : t \in TextMenu}
                    \cup {[fn |-> "decode", arg |-> d] : d \in DataMenu}

NextCodec ==
    \/ encode_qstring_call
    \/ decode_qstring_call

SpecCodec == InitCodec /\ [][NextCodec]_vars

(***************************************************************************)
(* Band classification of a ContactLogged datagram                         *)
(***************************************************************************)
\* One Hz below and above a frequency.
FreqPrev(f) == IF f[2] = 0 THEN <<f[1] - 1, 999999>> ELSE <<f[1], f[2] - 1>>
FreqNext(f) == IF f[2] = 999999 THEN <<f[1] + 1, 0>> ELSE <<f[1], f[2] + 1>>

\* The table of _freq_to_band: the band and its two edges.
BandRow(band, lo, hi) == [band |-> band, lo |-> lo, hi |-> hi]
BandTable ==
    { BandRow("160m", <<1, 800000>>, <<2, 0>>),
      BandRow("80m", <<3, 500000>>, <<4, 0>>),
      BandRow("60m", <<5, 300000>>, <<5, 400000>>),
      BandRow("40m", <<7, 0>>, <<7, 300000>>),
      BandRow("30m", <<10, 100000>>, <<10, 150000>>),
      BandRow("20m", <<14, 0>>, <<14, 350000>>),
      BandRow("17m", <<18, 68000>>, <<18, 168000>>),
      BandRow("15m", <<21, 0>>, <<21, 450000>>),
      BandRow("12m", <<24, 890000>>, <<24, 990000>>),
      BandRow("10m", <<28, 0>>, <<29, 700000>>),
      BandRow("6m", <<50, 0>>, <<54, 0>>),
      BandRow("2m", <<144, 0>>, <<148, 0>>),
      BandRow("1.25m", <<222, 0>>, <<225, 0>>),
      BandRow("70cm", <<420, 0>>, <<450, 0>>),
      BandRow("33cm", <<902, 0>>, <<928, 0>>),
      BandRow("23cm", <<1240, 0>>, <<1300, 0>>),
      BandRow("13cm", <<2300, 0>>, <<2450, 0>>),
      BandRow("9cm", <<3300, 0>>, <<3500, 0>>),
      BandRow("6cm", <<5650, 0>>, <<5925, 0>>),
      BandRow("3cm", <<10000, 0>>, <<10500, 0>>),
      BandRow("1.25cm", <<24000, 0>>, <<24250, 0>>) }

\* The frequencies studied: the three of stress_test_simultaneous, and for
\* every band its two edges and the frequencies one Hz outside them.
FreqMenu ==
    {F6m, F2m, F70cm}
        \cup UNION {{FreqPrev(r.lo), r.lo, r.hi, FreqNext(r.hi)} : r \in BandTable}

\* _parse_qso_logged on a ContactLogged datagram with the studied frequency.
parse_qso_logged_call ==
    /\ input.fn = "band"
    /\ output = NoOutput
    /\ output' = [ok |-> TRUE,
                  value |-> parse_qso_logged(
                                QsoOf("WSJT-X", 61234, 1000, "W1AW", input.arg),
                                2237).band,
                  offset |-> 0]
    /\ UNCHANGED <<engineVars, threadVars, relayVars, envVars, histVars,
                   wsjtx_order, gridVars, appVars, extEnvVars, extHistVars,
                   input, hooks, replacement>>

InitBand ==
    /\ InitPure
    /\ input \in {[fn |-> "band", arg |-> f] : f \in FreqMenu}

SpecBand == InitBand /\ [][parse_qso_logged_call]_vars

(***************************************************************************)
(* Field-by-field decoding of a ContactLogged datagram                     *)
(***************************************************************************)
\* A field of the body as the sender wrote it: a QString with its text, a
\* QDateTime, or the quint64 frequency.
StrField(s) == [kind |-> "str", len |-> Len(s), null |-> (s = "")]
DateTimeField == [kind |-> "datetime", len |-> QDateTimeLen, null |-> FALSE]
U64Field == [kind |-> "u64", len |-> 8, null |-> FALSE]

\* The required fields of a ContactLogged body, from the instance id to
\* exchange-received (the strings the model does not carry are null).
QsoFields(d) ==
    <<StrField(d.id), DateTimeField, StrField(d.call), StrField(""), U64Field,
      StrField(""), StrField(""), StrField(""), StrField(""), StrField(""),
      StrField(""), DateTimeField, StrField(""), StrField(""), StrField(""),
      StrField(""), StrField("")>>

\* The trailing propagation-mode field: left out by an older sender, else a
\* null string or a text.
PropAbsent == <<>>
PropMenu == {PropAbsent, <<"">>, <<"TR">>}

\* Decoding one field at offset, of a datagram of size bytes: the new
\* offset, or -1 when the decoder raises (ValueError of _decode_qstring and
\* _decode_qdatetime, struct.error of the unpack of a short slice).
read_field(f, offset, size) ==
    IF f.kind = "str"
    THEN IF size < offset + 4 THEN -1
         ELSE IF f.null THEN offset + 4
         ELSE IF size < offset + 4 + f.len THEN -1
         ELSE offset + 4 + f.len
    ELSE IF size < offset + f.len THEN -1
    ELSE offset + f.len

RECURSIVE read_fields(_, _, _)
read_fields(fields, offset, size) ==
    IF fields = <<>> THEN offset
    ELSE LET next == read_field(Head(fields), offset, size)
         IN  IF next = -1 THEN -1 ELSE read_fields(Tail(fields), next, size)

\* The bytes of the whole message as the sender wrote it.
FullLen(d, prop) ==
    QsoEnd(d) + (IF prop = PropAbsent THEN 0 ELSE QStringLen(prop[1]))

\* _parse_qso_logged, field by field: None when a required field raises;
\* the trailing field is decoded inside its own try, and any exception
\* leaves adif_prop_mode = ''.
parse_qso_logged_fields(d, prop, port) ==
    LET end == read_fields(QsoFields(d), HeaderLen, d.size)
        tail == IF prop = PropAbsent THEN -1
                ELSE read_field(StrField(prop[1]), end, d.size)
    IN  IF end = -1 THEN [ok |-> FALSE, value |-> <<>>, offset |-> 0]
        ELSE [ok |-> TRUE,
              value |-> [q |-> [call |-> d.call, band |-> freq_to_band(d.freq),
                                msOff |-> d.msOff, src |-> port, offset |-> -1],
                         adif_prop_mode |-> IF tail = -1 THEN "" ELSE prop[1]],
              offset |-> IF tail = -1 THEN end ELSE tail]

\* The datagrams given to the parser: two contacts, each with every
\* trailing field of PropMenu, cut after every number of bytes.
ParseMenu ==
    {[d |-> [m.d EXCEPT !.size = n], prop |-> prop, port |-> m.port] :
        m \in {x \in QsoMenu : x.d.msOff = 1000},
        prop \in PropMenu,
        n \in 0..(QsoEnd(QsoOf("ic7610", 61234, 1000, "W1AW", F6m)) + 6)}

parse_qso_logged_fields_call ==
    /\ input.fn = "parse"
    /\ output = NoOutput
    /\ output' = parse_qso_logged_fields(input.arg.d, input.arg.prop,
                                         input.arg.port)
    /\ UNCHANGED <<engineVars, threadVars, relayVars, envVars, histVars,
                   wsjtx_order, gridVars, appVars, extEnvVars, extHistVars,
                   input, hooks, replacement>>

InitParse ==
    /\ InitPure
    /\ input \in {[fn |-> "parse", arg |-> a] :
                     a \in {x \in ParseMenu : x.d.size <= FullLen(x.d, x.prop)}}

SpecParse == InitParse /\ [][parse_qso_logged_fields_call]_vars

\* ContactLogged datagrams of a sender of the older schema: they end right
\* after exchange-received.
OlderMenu == {[port |-> x.port, d |-> [x.d EXCEPT !.size = QsoEnd(x.d)]] : x \in QsoMenu}

InitOlder ==
    /\ InitEngine
    /\ QuietEnv
    /\ net \in Flights(OlderMenu, MaxDatagrams)
    /\ manualLeft = 0
    /\ faults = MaxFaults

NextOlder ==
    \/ \E p \in Ports : Listener(p)
    \/ Relay

SpecOlder == InitOlder /\ [][NextOlder]_vars

\* LoggedRecord (type 12) datagrams: the instance id and a raw record.
AdifOf(id, src) ==
    LET d == Dgram(0, MAGIC, MSG_LOGGED_ADIF, id, src, 0, "", <<0, 0>>)
    IN  [d EXCEPT !.size = AdifEnd(d)]
AdifMenu ==
    { [port |-> 2237, d |-> AdifOf("ic7610", 61234)],
      [port |-> 2238, d |-> AdifOf("ic9700", 61235)] }

\* WSJT-X sends a ContactLogged and a LoggedRecord for a logged contact.
InitRecord ==
    /\ InitEngine
    /\ QuietEnv
    /\ net \in Flights(AdifMenu \cup {x \in QsoMenu : x.d.msOff = 1000}, MaxDatagrams)
    /\ manualLeft = 0
    /\ faults = MaxFaults

SpecRecord == InitRecord /\ [][NextOlder]_vars

\* The location stamper and the contact-processed callback may raise.
InitHooks ==
    /\ InitEngine
    /\ net \in Flights(QsoMenu, MaxDatagrams)
    /\ manualLeft = 0
    /\ faults = MaxFaults
    /\ procs = {}
    /\ budget = [NoBudget EXCEPT !["raise"] = MaxRaises]

SpecHooks == InitHooks /\ [][NextOlder]_vars

\* The operator changes the grid twice while a decoder restarts.
InitRegrid ==
    /\ InitEngine
    /\ net \in Flights(HeartbeatMenu, MaxStopDatagrams)
    /\ manualLeft = 0
    /\ faults = 0
    /\ procs = {}
    /\ budget = [NoBudget EXCEPT !["grid"] = MaxRegrids, !["restart"] = MaxRestarts]

SpecRegrid == InitRegrid /\ [][NextGrid]_vars

(***************************************************************************)
(* Settings save: CoPilotApp.save_settings replaces the RadioUpdater       *)
(***************************************************************************)
\* After self.radio_updater.stop_listener(), which joins the listener
\* threads for at most two seconds each and does not join the relay thread:
\* RadioUpdater(...) is constructed and its relay thread started.
save_settings_restart ==
    /\ ~running
    /\ pc[GUI] = "idle"
    /\ replacement = NoReplacement
    /\ replacement' = [NoReplacement EXCEPT !.rpc = "loop"]
    /\ UNCHANGED <<engineVars, threadVars, relayVars, envVars, histVars,
                   wsjtx_order, gridVars, appVars, extEnvVars, extHistVars,
                   pureVars, hooks>>

\* log_manual_qso after the replacement: queue_qso_for_relay of the new
\* instance, then the location stamp and _write_qso_to_adif.
replacement_log_manual_qso(q) ==
    /\ pc[GUI] = "idle"
    /\ manualLeft > 0
    /\ replacement.rpc # "none"
    /\ manualLeft' = manualLeft - 1
    /\ replacement' = [replacement EXCEPT !.qso_queue = Append(@, q)]
    /\ cur' = [cur EXCEPT ![GUI] = q]
    /\ pc' = [pc EXCEPT ![GUI] = AfterManualQueue]
    /\ UNCHANGED <<engineVars, ldg, hdr, relayVars, net, now, faults, histVars,
                   wsjtx_order, gridVars, appVars, extEnvVars, extHistVars,
                   pureVars, hooks>>

\* _relay_loop of the new instance, whose running flag stays set: the loop
\* test, the get (an item, or the timeout), the adapter call, its return
\* and the sleep.
replacement_relay_loop_check ==
    /\ replacement.rpc = "loop"
    /\ replacement' = [replacement EXCEPT !.rpc = "get"]
    /\ UNCHANGED <<engineVars, threadVars, relayVars, envVars, histVars,
                   wsjtx_order, gridVars, appVars, extEnvVars, extHistVars,
                   pureVars, hooks>>

replacement_relay_loop_get ==
    /\ replacement.rpc = "get"
    /\ replacement' =
          IF replacement.qso_queue = <<>>
          THEN [replacement EXCEPT !.rpc = "loop"]
          ELSE [replacement EXCEPT
                   !.qso_queue = QueueGet(@)[2],
                   !.rcur = [QueueGet(replacement.qso_queue)[1]
                               EXCEPT !.offset = replacement.qso_offset],
                   !.qso_offset = NextOffset(@),
                   !.rpc = "dispatch"]
    /\ UNCHANGED <<engineVars, threadVars, relayVars, envVars, histVars,
                   wsjtx_order, gridVars, appVars, extEnvVars, extHistVars,
                   pureVars, hooks>>

replacement_relay_loop_dispatch ==
    /\ replacement.rpc = "dispatch"
    /\ replacement' = [replacement EXCEPT !.rpc = "send"]
    /\ inProgress' = inProgress + 1
    /\ UNCHANGED <<engineVars, threadVars, rpc, rcur, envVars, histVars,
                   wsjtx_order, gridVars, appVars, extEnvVars, extHistVars,
                   pureVars, hooks>>

replacement_relay_loop_send ==
    /\ replacement.rpc = "send"
    /\ replacement' = [replacement EXCEPT !.rpc = "sleep",
                                          !.sent = Append(@, replacement.rcur)]
    /\ inProgress' = inProgress - 1
    /\ UNCHANGED <<engineVars, threadVars, rpc, rcur, envVars, histVars,
                   wsjtx_order, gridVars, appVars, extEnvVars, extHistVars,
                   pureVars, hooks>>

replacement_relay_loop_sleep ==
    /\ replacement.rpc = "sleep"
    /\ replacement' = [replacement EXCEPT !.rpc = "loop"]
    /\ UNCHANGED <<engineVars, threadVars, relayVars, envVars, histVars,
                   wsjtx_order, gridVars, appVars, extEnvVars, extHistVars,
                   pureVars, hooks>>

ReplacementRelay ==
    \/ replacement_relay_loop_check
    \/ replacement_relay_loop_get
    \/ replacement_relay_loop_dispatch
    \/ replacement_relay_loop_send
    \/ replacement_relay_loop_sleep

\* The settings are saved while a contact is on its way through the old
\* instance; the operator then enters a contact by hand.
InitReplace ==
    /\ InitEngine
    /\ QuietEnv
    /\ net \in Flights(QsoMenu, MaxStopDatagrams)
    /\ manualLeft = MaxManual
    /\ faults = 0

NextReplace ==
    \/ \E p \in Ports : ListenerLive(p)
    \/ Relay
    \/ stop_listener
    \/ save_settings_restart
    \/ \E q \in ManualMenu : replacement_log_manual_qso(q)
    \/ write_qso_to_adif_check(GUI)
    \/ write_qso_to_adif_append(GUI)
    \/ ReplacementRelay

SpecReplace == InitReplace /\ [][NextReplace]_vars

(***************************************************************************)
(* Switching the logger: CoPilotApp._on_logger_change -> set_logger        *)
(***************************************************************************)
\* The names set_logger may be called with: the two loggers, and a name
\* that is neither.
LoggerNames == Loggers \cup {"logbook"}

\* What set_logger answers its caller: it returns None for every argument.
set_logger_result(logger) == "ok"

\* self.contest_logger = logger
set_logger ==
    /\ pc[GUI] = "idle"
    /\ budget["switch"] > 0
    /\ \E logger \in LoggerNames :
         /\ contest_logger' = logger
         /\ calls' = Append(calls, CallRec("set_logger", logger,
                                            set_logger_result(logger), qso_queue))
    /\ budget' = [budget EXCEPT !["switch"] = @ - 1]
    /\ UNCHANGED <<running, wsjtx_ids, logged_qsos, qso_queue, qso_offset, adif,
                   threadVars, relayVars, envVars, histVars, wsjtx_order,
                   gridVars, appVars, pureVars, hooks, replacement, procs, sentLoc, sentLogger, polls, checks>>

InitSwitch ==
    /\ InitEngine
    /\ net \in Flights(QsoMenu, MaxDatagrams)
    /\ manualLeft = 0
    /\ faults = MaxFaults
    /\ procs = {}
    /\ budget = [NoBudget EXCEPT !["switch"] = MaxSwitches]

NextSwitch ==
    \/ \E p \in Ports : Listener(p)
    \/ Relay
    \/ set_logger

SpecSwitch == InitSwitch /\ [][NextSwitch]_vars

(***************************************************************************)
(* Properties of the contact pipeline                                      *)
(***************************************************************************)
\* A contact as it was before the relay worker set _time_offset.
Base(q) == [q EXCEPT !.offset = -1]
Range(seq) == {seq[i] : i \in 1..Len(seq)}
FromListener(q) == q.src \in Ports

\* C1: for each dedup key at most one ContactLogged event handled by the
\* listener threads is pushed onto the relay queue.
C1_OnePushPerKey ==
    \A i, j \in 1..Len(pushed) :
        (FromListener(pushed[i]) /\ FromListener(pushed[j])
         /\ QsoKey(pushed[i]) = QsoKey(pushed[j])) => i = j

\* C3: at any moment at most one delivery to the logger backend is in
\* progress.
C3_OneDeliveryAtATime == inProgress <= 1

\* A delivery is in progress while contacts pushed by a listener and by
\* manual entry are involved and another contact is already waiting.
C3_Witness ==
    /\ inProgress = 1
    /\ qso_queue # <<>>
    /\ \E i, j \in 1..Len(pushed) : FromListener(pushed[i]) /\ pushed[j].src = GUI

\* C4: contacts are delivered in the order in which their keys were inserted
\* into the dedup set, under every interleaving of the listener threads.
C4_DeliveredInAdmissionOrder ==
    \A i, j \in 1..Len(admitted) :
        i < j =>
          \A kj \in 1..Len(delivered) :
              Base(delivered[kj].q) = admitted[j] =>
                \E ki \in 1..(kj - 1) : Base(delivered[ki].q) = admitted[i]

\* C5 as stated: every ContactLogged event that reaches the duplicate test is
\* written to the durable log, also when it is dropped as a duplicate.
C5_DuplicatesAreLogged == \A q \in dropped : q \in writes

\* C5 amended: an event that passes the duplicate test is handed to the
\* durable-log writer before it is pushed, and its record is in the file
\* unless the write failed; an event dropped as a duplicate is neither
\* written nor pushed.
C5_AdmittedAreLogged ==
    /\ \A q \in dropped :
          q \notin writes /\ q \notin Range(adif) /\ q \notin Range(pushed)
    /\ \A i \in 1..Len(pushed) :
          FromListener(pushed[i]) =>
             pushed[i] \in writes /\ pushed[i] \in Range(admitted)
    /\ \A i \in 1..Len(admitted) :
          \/ admitted[i] \in writes
          \/ \E p \in Ports : pc[p] = "write" /\ cur[p] = admitted[i]
    /\ \A q \in writes :
          \/ q \in Range(adif)
          \/ \E t \in Threads : pc[t] = "append" /\ cur[t] = q
          \/ faults < MaxFaults

\* One event was dropped as a duplicate and an admitted event is in the file
\* and in the queue's history.
C5_Witness ==
    /\ dropped # {}
    /\ \E i \in 1..Len(pushed) :
          FromListener(pushed[i]) /\ pushed[i] \in Range(adif)

\* C6: every contact that is pushed onto the relay queue, from a listener or
\* from manual entry, has been handed to the durable-log writer before.
C6_LoggedBeforeQueued == \A i \in 1..Len(pushed) : pushed[i] \in writes

\* C2: while the engine is running every contact pushed onto the relay queue
\* is eventually handed to the logger adapter, exactly once and in its turn,
\* whatever the outcome of the deliveries before it.
C2_EveryQueuedContactIsDelivered ==
    /\ [](/\ Len(delivered) <= Len(pushed)
          /\ \A k \in 1..Len(delivered) : Base(delivered[k].q) = pushed[k])
    /\ \A k \in 1..(MaxDatagrams + MaxManual) :
          (Len(pushed) >= k) ~> (Len(delivered) >= k \/ ~running)

\* A delivery failed and the contact queued behind it was delivered.
C2_Witness ==
    /\ running
    /\ \E i, j \in 1..Len(delivered) :
          i < j /\ ~delivered[i].ok /\ delivered[j].ok

SameCallAndSecond(a, b) ==
    a.call = b.call /\ a.msOff \div 1000 = b.msOff \div 1000

\* C7 as stated: for every N, the sequence offsets given to N contacts that
\* share one callsign and nominal second are pairwise distinct modulo 60.
C7_OffsetsAlwaysDistinct ==
    \A i, j \in 1..Len(delivered) :
        (i # j /\ SameCallAndSecond(delivered[i].q, delivered[j].q)) =>
            delivered[i].q.offset % (OffsetWrap + 1)
              # delivered[j].q.offset % (OffsetWrap + 1)

\* C7 amended: every offset lies in 0..59, and two contacts that share one
\* callsign and nominal second get distinct offsets whenever they are fewer
\* than 60 places apart in the delivery order (so any N <= 60 contacts
\* delivered in a row); two contacts 60 places apart get the same offset.
C7_OffsetsDistinctWithinSixty ==
    \A i, j \in 1..Len(delivered) :
        /\ delivered[i].q.offset \in 0..OffsetWrap
        /\ (i < j /\ SameCallAndSecond(delivered[i].q, delivered[j].q)) =>
              /\ (j - i <= OffsetWrap =>
                     delivered[i].q.offset # delivered[j].q.offset)
              /\ (j - i = OffsetWrap + 1 =>
                     delivered[i].q.offset = delivered[j].q.offset)

\* Sixty-one contacts of one callsign and second have been delivered.
C7_Witness ==
    /\ Len(delivered) = MaxPops
    /\ \A i, j \in 1..Len(delivered) :
          SameCallAndSecond(delivered[i].q, delivered[j].q)

(***************************************************************************)
(* Properties of the simultaneous contacts                                 *)
(***************************************************************************)
Quiescent ==
    /\ net = {}
    /\ \A p \in Ports : pc[p] = "recv"
    /\ qso_queue = <<>>
    /\ rpc \notin {"dispatch", "send"}

\* C8: three ContactLogged messages for one callsign on three bands, sent at
\* once to the three ports, all reach the relay queue (none is dropped as a
\* duplicate) and are given the offsets 0, 1 and 2 in the order they are
\* taken from the queue.
C8_ThreeBandsThreeOffsets ==
    /\ dropped = {}
    /\ \A k \in 1..Len(delivered) : delivered[k].q.offset = k - 1
    /\ Quiescent =>
          /\ Len(pushed) = 3
          /\ {pushed[k].band : k \in 1..Len(pushed)} = {"6m", "2m", "70cm"}
          /\ {delivered[k].q.offset : k \in 1..Len(delivered)} = {0, 1, 2}
          /\ {Base(delivered[k].q) : k \in 1..Len(delivered)} = Range(pushed)

\* All three contacts have been delivered, the 70cm contact first.
C8_Witness ==
    /\ Quiescent
    /\ Len(delivered) = 3
    /\ delivered[1].q.band = "70cm"
    /\ delivered[1].q.offset = 0

(***************************************************************************)
(* Properties of the listeners and the registry                            *)
(***************************************************************************)
Last(seq) == seq[Len(seq)]

\* C9: a datagram that fails decoding (too short, wrong magic, truncated
\* header or body) never ends a receive loop: a loop has ended only if the
\* running flag was cleared, and after discarding such a datagram the
\* listener is back at recvfrom, able to take the next datagram for its port.
C9_DecodeErrorKeepsListening ==
    /\ \A m \in MalformedMenu : Disposition(m.d) = "drop"
    /\ \A m \in IgnoredMenu : Disposition(m.d) = "ignore"
    /\ \A p \in Ports :
          /\ pc[p] = "done" => ~running
          /\ (llog[p] # <<>> /\ Last(llog[p]) \in {"drop", "ignore"} /\ running) =>
                /\ pc[p] = "recv"
                /\ (\E m \in net : m.port = p) => ENABLED listen_loop_recv(p)

\* A listener dropped a malformed datagram and then handled a heartbeat.
C9_Witness ==
    /\ running
    /\ \E p \in Ports :
          /\ Len(llog[p]) = 2
          /\ llog[p][1] = "drop"
          /\ llog[p][2] = "heartbeat"
          /\ pc[p] = "recv"

\* C10: the registry is keyed by the source port of the heartbeat: the step
\* that stores a heartbeat sets the entry of its source port to its instance
\* id and the current time, creating the entry if there is none; no other
\* entry changes and no step removes an entry.
C10_RegistryKeyedBySourcePort ==
    [][ /\ DOMAIN wsjtx_ids \subseteq DOMAIN wsjtx_ids'
        /\ \A p \in Ports :
              (pc[p] = "hb_store" /\ pc'[p] # "hb_store") =>
                 /\ ldg[p].src \in DOMAIN wsjtx_ids'
                 /\ wsjtx_ids'[ldg[p].src] = <<ldg[p].id, now>>
        /\ \A s \in DOMAIN wsjtx_ids' :
              (s \notin DOMAIN wsjtx_ids \/ wsjtx_ids'[s] # wsjtx_ids[s]) =>
                 \E p \in Ports :
                    pc[p] = "hb_store" /\ pc'[p] # "hb_store" /\ ldg[p].src = s
      ]_vars

\* Source port 61234 was registered by a first heartbeat and its entry was
\* replaced by a later heartbeat with another instance id at a later time.
C10_Witness ==
    /\ 61234 \in DOMAIN wsjtx_ids
    /\ wsjtx_ids[61234][2] > StartTime
    /\ Cardinality({h \in heard : h.src = 61234}) = 2
    /\ \E h \in heard :
          h.src = 61234 /\ h.id # wsjtx_ids[61234][1] /\ h.t = StartTime
    /\ \A p \in Ports : pc[p] # "hb_store"
    /\ DOMAIN wsjtx_ids \cap Ports = {}

(***************************************************************************)
(* Properties of the status check                                          *)
(***************************************************************************)
\* The time of the latest heartbeat recorded for the instance configured on
\* port c, in registry reg (0 if there is none).
RadioLast(reg, c) ==
    LET ts == {reg[s][2] : s \in {x \in DOMAIN reg : Matched(x, reg[x][1], c)}}
    IN  IF ts = {} THEN 0 ELSE CHOOSE t \in ts : \A u \in ts : u <= t

\* The k-th status check ran with no heartbeat stored while it ran.
QuietCheck(k) == checks[k].seen = checks[k].seenEnd

\* C11: at every status check, an instance that has been connected is
\* reported stale (red) exactly if more than the 30 second timeout has
\* passed since its last recorded heartbeat.
C11_StaleIffTimedOut ==
    \A k \in 1..Len(checks) :
        \A c \in Ports :
            LET last == RadioLast(checks[k].seen, c)
            IN  (QuietCheck(k) /\ last # 0) =>
                  (checks[k].label[c] = "red" <=> checks[k].t - last > Timeout)

\* C12: an instance reported stale at one status check is reported connected
\* at the next check if a heartbeat of it was recorded in between (and less
\* than the timeout before that check), whatever else the registry holds.
C12_NextHeartbeatReconnects ==
    \A k \in 2..Len(checks) :
        \A c \in Ports :
            LET last == RadioLast(checks[k].seen, c)
            IN  (/\ QuietCheck(k)
                 /\ checks[k - 1].label[c] = "red"
                 /\ checks[k - 1].last[c] # 0
                 /\ last >= checks[k - 1].t
                 /\ checks[k].t - last <= Timeout)
                => checks[k].label[c] = "green"

(***************************************************************************)
(* Properties of discovery                                                 *)
(***************************************************************************)
\* C13: discovery is reported exactly once per source port: no source port
\* has two "Discovered" reports, and every registered port has one.
C13_DiscoveredOncePerPort ==
    \A s \in SrcPorts \cup DOMAIN wsjtx_ids :
        LET reports == {k \in 1..Len(discovered) : discovered[k][1] = s}
        IN  /\ Cardinality(reports) <= 1
            /\ s \in DOMAIN wsjtx_ids => Cardinality(reports) = 1

(***************************************************************************)
(* Properties of the logger switch and of failures                         *)
(***************************************************************************)
\* The logger named by the n-th set_logger call (0: at construction).
LoggerAfter(n) ==
    IF n = 0 THEN "n1mm"
    ELSE LET ks == {k \in 1..Len(calls) :
                     /\ calls[k].op = "set_logger"
                     /\ Cardinality({j \in 1..k : calls[j].op = "set_logger"}) = n}
         IN  calls[CHOOSE k \in ks : TRUE].arg

\* C17: set_logger changes the active target and nothing else of the engine
\* (registry, dedup set, queue, listeners, worker); every delivery goes to
\* the target in force when the worker dispatched it, so a contact that was
\* in the queue at a switch goes to the target of that or a later switch; no
\* contact is delivered twice.
C17_SwitchChangesOnlyTarget ==
    /\ [][NumSwitches' > NumSwitches =>
             /\ contest_logger' = LoggerAfter(NumSwitches)'
             /\ UNCHANGED <<running, wsjtx_ids, wsjtx_order, logged_qsos,
                            qso_queue, qso_offset, adif, threadVars, relayVars>>
         ]_vars
    /\ [](\A k \in 1..Len(delivered) :
            LET d == delivered[k]
            IN  /\ d.logger = LoggerAfter(d.sw)
                /\ d.logger \in Loggers => d.target = d.logger
                /\ d.target \in Loggers
                /\ \A j \in 1..Len(delivered) :
                      Base(delivered[j].q) = Base(d.q) => j = k
                /\ \A n \in 1..Len(calls) :
                      (/\ calls[n].op = "set_logger"
                       /\ Base(d.q) \in Range(calls[n].found))
                      => d.sw >= Cardinality({j \in 1..n : calls[j].op = "set_logger"}))

\* A contact that was in the queue when the logger was switched to N3FJP has
\* been delivered to N3FJP, and another contact to N1MM+.
C17_Witness ==
    /\ \E n \in 1..Len(calls), k \in 1..Len(delivered) :
          /\ calls[n].op = "set_logger"
          /\ calls[n].arg = "n3fjp"
          /\ Base(delivered[k].q) \in Range(calls[n].found)
          /\ delivered[k].target = "n3fjp"
    /\ \E j \in 1..Len(delivered) : delivered[j].target = "n1mm"

C19_WriteFailureDoesNotBlockRelay ==
    \A q \in writes :
        FromListener(q) =>
           \/ \E p \in Ports : cur[p] = q /\ pc[p] \in {"append", "put"}
           \/ q \in Range(pushed)

\* A contact whose write to the durable log failed has been delivered.
C19_Witness ==
    \E k \in 1..Len(delivered) :
        LET q == Base(delivered[k].q)
        IN  /\ FromListener(q)
            /\ q \in writes
            /\ q \notin Range(adif)
            /\ delivered[k].ok

\* C20: an unknown logger name is reported to the caller of set_logger.
C20_UnknownTargetIsReported ==
    \A k \in 1..Len(calls) :
        (calls[k].op = "set_logger" /\ calls[k].arg \notin Loggers) =>
           calls[k].result = "error"

(***************************************************************************)
(* Properties of the grid updates                                          *)
(***************************************************************************)
\* The polls of the jt9 monitor that have ended (the initial scan is
\* polls[1]).
PollEnded(k) == k < Len(polls) \/ wpc \in {"loop", "done"}

\* C14: the watchdog replays only at a poll whose sample holds a process id
\* absent from the previous sample, and only with a grid set; the initial
\* sample is the first "previous" one; after every poll the previous sample
\* is the sample of that poll.
C14_ReplayOnlyOnNewPid ==
    /\ \A k \in 2..Len(polls) :
         /\ polls[k].replay =>
              /\ polls[k].sample \ polls[k - 1].sample # {}
              /\ polls[k].grid # NoGrid
         /\ polls[k].prev = polls[k - 1].sample
    /\ (Len(polls) > 0 /\ PollEnded(Len(polls))) =>
           jt9_pids = polls[Len(polls)].sample

\* The grids known at some time of the run.
KnownGrids == {calls[j].arg : j \in {i \in 1..Len(calls) : calls[i].op = "update_grid"}}

\* C15: a poll that observed a new process id with a grid set has, when it
\* ends, sent a LocationChange with the last known grid to every endpoint
\* of the registry, at the endpoint's discovered source port.
C15_ReplayReachesEveryEndpoint ==
    \A k \in 2..Len(polls) :
        (polls[k].replay /\ PollEnded(k)) =>
            \A s \in polls[k].ports :
                \E i \in 1..Len(sentLoc) :
                    /\ sentLoc[i].by = "watchdog"
                    /\ sentLoc[i].n = k
                    /\ sentLoc[i].port = s
                    /\ sentLoc[i].grid \in KnownGrids

\* The n-th call of update_grid, as the history records it.
GridCall(n) ==
    LET ks == {k \in 1..Len(calls) : calls[k].op = "update_grid"}
    IN  calls[CHOOSE k \in ks : Cardinality({j \in ks : j <= k}) = n]

\* C16: a call update_grid(G) that has ended has sent a LocationChange with
\* G to every endpoint of the registry, whether or not that send succeeded,
\* and exactly one location message with G to the active logger adapter.
C16_UpdateGridReachesAll ==
    \A n \in 1..NumGridCalls :
        GridCall(n).result # "running" =>
            /\ \A s \in GridCall(n).found :
                 \E i \in 1..Len(sentLoc) :
                     /\ sentLoc[i].by = "update_grid"
                     /\ sentLoc[i].n = n
                     /\ sentLoc[i].port = s
                     /\ sentLoc[i].grid = GridCall(n).arg
            /\ Cardinality({i \in 1..Len(sentLogger) :
                              /\ sentLogger[i].n = n
                              /\ sentLogger[i].grid = GridCall(n).arg
                              /\ sentLogger[i].target = AdapterOf(sentLogger[i].logger)})
                 = 1

(***************************************************************************)
(* Properties of shutdown                                                  *)
(***************************************************************************)
AllLoopsDone ==
    /\ \A p \in Ports : pc[p] = "done"
    /\ rpc = "done"
    /\ wpc = "done"

\* C21: once the running flag is cleared, every listener loop, the relay
\* worker loop and the jt9 monitor loop eventually end.
C21_LoopsExitAfterStop == (~running) ~> AllLoopsDone

\* All loops have ended and a contact is still in the relay queue.
C21_Witness == AllLoopsDone /\ qso_queue # <<>>

(***************************************************************************)
(* Properties of the string codec                                          *)
(***************************************************************************)
\* The bytes the decoder consumed.
Consumed == SubSeq(input.arg.data, input.arg.offset + 1, output.offset)

\* C22: decoding a valid encoded string and encoding the result again gives
\* the bytes that were decoded; decoding the encoding of a text gives the
\* text; the empty or absent text is encoded as the null length 0xFFFFFFFF,
\* and the null length decodes to the empty text.
C22_CodecRoundTrip ==
    /\ (input.fn = "encode" /\ output # NoOutput) =>
          /\ decode_qstring(output.value, 0) =
                [ok |-> TRUE, value |-> input.arg.chars,
                 offset |-> Len(output.value)]
          /\ input.arg.chars = <<>> => output.value = PackU32(NullLength)
    /\ (input.fn = "decode" /\ output.ok) =>
          /\ encode_qstring(Str(output.value)) = Consumed
          /\ Consumed = PackU32(NullLength) => output.value = <<>>

(***************************************************************************)
(* Properties of the band classification                                   *)
(***************************************************************************)
\* The rows of the table whose closed range holds f.
RowsOf(f) == {r \in BandTable : FreqLe(r.lo, f) /\ FreqLe(f, r.hi)}

\* C23: 50313000 Hz is classified 6m, 144174000 Hz 2m and 432065000 Hz
\* 70cm; a frequency inside a closed range of the table gets that range's
\* band, and a frequency in no range gets a label that is no band name.
C23_BandOfFrequency ==
    (input.fn = "band" /\ output # NoOutput) =>
        /\ input.arg = F6m => output.value = "6m"
        /\ input.arg = F2m => output.value = "2m"
        /\ input.arg = F70cm => output.value = "70cm"
        /\ \A r \in RowsOf(input.arg) : output.value = r.band
        /\ RowsOf(input.arg) = {} =>
              output.value \notin {r.band : r \in BandTable}

\* The upper edge of 6m, 54 MHz, has been classified.
C23_Witness ==
    /\ input = [fn |-> "band", arg |-> <<54, 0>>]
    /\ output.value = "6m"

(***************************************************************************)
(* Properties of the dedup key set                                         *)
(***************************************************************************)
\* C24: the dedup key set only grows.  A step changes it only by inserting
\* the key of the contact being admitted; a contact whose key is present
\* when it is tested is dropped and changes neither the set, the relay
\* queue nor the durable log, and never goes on to be admitted; so every
\* admitted key stays in the set, whatever is delivered, fails or is
\* switched meanwhile.
C24_KeySetOnlyGrows ==
    /\ [][/\ logged_qsos \subseteq logged_qsos'
          /\ logged_qsos' # logged_qsos =>
                \E p \in Ports :
                    /\ pc[p] = "qso_add"
                    /\ logged_qsos' = logged_qsos \cup {QsoKey(cur[p])}
                    /\ admitted' = Append(admitted, cur[p])
          /\ \A p \in Ports :
                (pc[p] = "recv" /\ pc'[p] = "qso_add") =>
                    QsoKey(cur'[p]) \notin logged_qsos
          /\ dropped' # dropped =>
                /\ \A q \in dropped' \ dropped : QsoKey(q) \in logged_qsos
                /\ UNCHANGED <<logged_qsos, qso_queue, adif, admitted>>]_vars
    /\ [](\A k \in 1..Len(admitted) : QsoKey(admitted[k]) \in logged_qsos)

\* A duplicate has been dropped after a failed delivery and a change of the
\* logger target.
C24_Witness ==
    /\ dropped # {}
    /\ \E k \in 1..Len(delivered) : ~delivered[k].ok
    /\ \E n \in 1..Len(calls) : calls[n].op = "set_logger"

(***************************************************************************)
(* Properties of the offset counter                                        *)
(***************************************************************************)
\* The contacts the relay worker has popped so far.
NumPopped == Len(delivered) + (IF rpc \in {"dispatch", "send"} THEN 1 ELSE 0)

\* C25: the offset counter starts at 0, and the k-th contact the relay
\* worker pops, counting from 0, is given the offset k mod 60, whatever the
\* outcome of the deliveries before it; every offset lies in 0..59.
C25_OffsetIsPopCountMod60 ==
    /\ qso_offset = NumPopped % (OffsetWrap + 1)
    /\ \A k \in 1..Len(delivered) :
          /\ delivered[k].q.offset = (k - 1) % (OffsetWrap + 1)
          /\ delivered[k].q.offset \in 0..OffsetWrap
    /\ rpc \in {"dispatch", "send"} => rcur.q.offset = Len(delivered) % (OffsetWrap + 1)

\* The 61st contact has been delivered with offset 0 after a delivery that
\* failed.
C25_Witness ==
    /\ Len(delivered) = OffsetWrap + 2
    /\ delivered[OffsetWrap + 2].q.offset = 0
    /\ \E k \in 1..(OffsetWrap + 1) : ~delivered[k].ok

(***************************************************************************)
(* Properties of the records sent to the logger                            *)
(***************************************************************************)
\* C26: two contacts with one callsign and one time-off second that are
\* delivered to one logger target with different sequence offsets carry
\* different dates or times in the records sent.
C26_OffsetsSeparateTimestamps ==
    \A i, j \in 1..Len(delivered) :
        (/\ i # j
         /\ delivered[i].target = delivered[j].target
         /\ SameCallAndSecond(delivered[i].q, delivered[j].q)
         /\ delivered[i].q.offset # delivered[j].q.offset)
        => delivered[i].times # delivered[j].times

(***************************************************************************)
(* Properties of the pace of the relay worker                              *)
(***************************************************************************)
\* C27: after every delivery attempt, successful or failed, the relay worker
\* is at its inter-send delay; it leaves the delay only by completing it,
\* with the queue untouched; and it pops a contact only from its queue
\* wait, never from the delay.  So the delay step lies between any two
\* consecutive deliveries.
C27_DelayAfterEveryDelivery ==
    [][/\ Len(delivered') > Len(delivered) => rpc' = "sleep"
       /\ (rpc = "sleep" /\ rpc' # "sleep") =>
             /\ rpc' = "loop"
             /\ UNCHANGED <<qso_queue, delivered, rcur, qso_offset>>
       /\ (rcur' # rcur \/ qso_offset' # qso_offset) =>
             rpc \in {"get", "dispatch"}]_vars

\* A second contact has been popped after a delivery that failed.
C27_Witness ==
    /\ Len(delivered) = 1
    /\ ~delivered[1].ok
    /\ rpc = "dispatch"

(***************************************************************************)
(* Properties of the datagrams that are not handled                        *)
(***************************************************************************)
\* A datagram that is short, has a wrong magic number, or is cut off inside
\* its instance id or inside the body its type requires.
Malformed(d) ==
    \/ d.size < HeaderLen
    \/ d.magic # MAGIC
    \/ d.size < IdEnd(d)
    \/ d.type = MSG_QSO_LOGGED /\ d.size < QsoEnd(d)
    \/ d.type = MSG_LOGGED_ADIF /\ d.size < AdifEnd(d)
\* A datagram of a type the engine does not handle.
Foreign(d) == d.type \notin {MSG_HEARTBEAT, MSG_QSO_LOGGED, MSG_LOGGED_ADIF}

HoldsPushed(t) ==
    IF t = GUI THEN pc[t] \in {"write", "append"} ELSE pc[t] = "callback"

\* The relay worker has taken contact q from the queue, has assigned its
\* sequence offset and has not finished its delivery.
WorkerHas(q) ==
    /\ rpc \in {"dispatch", "send"}
    /\ [rcur.q EXCEPT !.offset = q.offset] = q

\* C30: a contact has one owner at a time: no thread that pushed a contact
\* still has reads or writes of it to do while the relay worker holds it.
C30_OneOwnerAtATime ==
    \A t \in Threads : ~(HoldsPushed(t) /\ WorkerHas(cur[t]))

\* The overlap on the listener side alone: the callback has yet to read
\* the contact the worker is delivering.
ListenerOverlap ==
    \E p \in Ports : HoldsPushed(p) /\ WorkerHas(cur[p])

\* The overlap on the manual-entry side alone: the GUI thread has yet to
\* stamp and write the contact the worker is delivering.
ManualOverlap == HoldsPushed(GUI) /\ WorkerHas(cur[GUI])

(***************************************************************************)
(* Broadcasts that overlap a registration                                  *)
(***************************************************************************)
\* Broadcast n of the kind "by" has sent to every endpoint of ports.
BroadcastSent(by, n, ports) ==
    \A s \in ports :
        \E i \in 1..Len(sentLoc) :
            /\ sentLoc[i].by = by
            /\ sentLoc[i].n = n
            /\ sentLoc[i].port = s

\* C29: a broadcast that has ended, whatever the listeners registered
\* meanwhile, has sent to every endpoint that was registered when it
\* started; an update_grid has also sent the logger location message.
C29_BroadcastCompletesDespiteRegistration ==
    /\ \A n \in 1..NumGridCalls :
          GridCall(n).result # "running" =>
              /\ BroadcastSent("update_grid", n, GridCall(n).found)
              /\ \E i \in 1..Len(sentLogger) : sentLogger[i].n = n
    /\ \A k \in 2..Len(polls) :
          (polls[k].replay /\ PollEnded(k)) =>
              BroadcastSent("watchdog", k, polls[k].ports)

\* The same for the broadcasts that no RuntimeError of the dict iterator
\* ended.
BroadcastCompletesUndisturbed ==
    /\ \A n \in 1..NumGridCalls :
          GridCall(n).result = "ok" =>
              /\ BroadcastSent("update_grid", n, GridCall(n).found)
              /\ \E i \in 1..Len(sentLogger) : sentLogger[i].n = n
    /\ \A k \in 2..Len(polls) :
          (polls[k].replay /\ PollEnded(k) /\ ~polls[k].error) =>
              BroadcastSent("watchdog", k, polls[k].ports)

(***************************************************************************)
(* Properties of the header of the day's log file                          *)
(***************************************************************************)
\* The positions of the file that hold a header block.
HeaderPositions == {i \in 1..Len(adif) : adif[i] = AdifHeader}

\* C31: under any interleaving of the appends of the listeners, of the
\* LoggedRecord handler and of manual entry, a log file that has content
\* holds exactly one header block, and it is the first entry.
C31_OneHeaderFirst ==
    adif # <<>> => HeaderPositions = {1}

\* Two threads found no file, and each wrote a header block.
TwoHeaders == Cardinality(HeaderPositions) > 1

(***************************************************************************)
(* Properties of the ContactLogged decoder                                 *)
(***************************************************************************)
\* The parser has been applied to its input.
Parsed == input.fn = "parse" /\ output # NoOutput

\* The datagram was cut inside a field: fewer bytes arrived than the sender
\* wrote, and it does not end right after exchange-received.
CutInsideField ==
    /\ input.arg.d.size < FullLen(input.arg.d, input.arg.prop)
    /\ input.arg.d.size # QsoEnd(input.arg.d)

\* C32: a ContactLogged datagram cut inside a length-prefixed string, a
\* packed date-time or the fixed-width frequency fails to decode: it
\* produces no contact.
C32_TruncatedFieldYieldsNoContact ==
    (Parsed /\ CutInsideField) => ~output.ok

\* The same for a cut before the end of exchange-received, and the
\* agreement of the field-by-field decoder with parse_qso_logged.
TruncatedRequiredFieldYieldsNoContact ==
    Parsed =>
        /\ input.arg.d.size < QsoEnd(input.arg.d) => ~output.ok
        /\ output.ok <=> parse_qso_logged(input.arg.d, input.arg.port) # NoQso
        /\ output.ok =>
              output.value.q = parse_qso_logged(input.arg.d, input.arg.port)

\* The datagrams the listeners have received so far.
Received == {x \in Ports \X (1..MaxDatagrams) : x[2] <= Len(llog[x[1]])}

\* C33: a ContactLogged message that ends right after exchange-received
\* decodes to a contact with the fields that were read and an empty
\* propagation mode; the listener does not drop it: it goes to the
\* duplicate test, where it is admitted or found to be a duplicate.
C33_MissingPropagationModeIsAccepted ==
    /\ \A m \in OlderMenu :
          LET r == parse_qso_logged_fields(m.d, PropAbsent, m.port)
          IN  /\ r.ok
              /\ r.value.adif_prop_mode = ""
              /\ r.value.q.call = m.d.call
              /\ r.value.q.msOff = m.d.msOff
              /\ r.value.q.band = freq_to_band(m.d.freq)
              /\ r.value.q = parse_qso_logged(m.d, m.port)
    /\ \A x \in Received : llog[x[1]][x[2]] = "qso"
    /\ Cardinality(Received)
          = Len(admitted) + Cardinality(dropped)
              + Cardinality({p \in Ports : pc[p] = "qso_add"})

\* Two datagrams of the older schema were received: one contact was
\* delivered and the other was dropped as a duplicate.
C33_Witness ==
    /\ net = {}
    /\ dropped # {}
    /\ \E k \in 1..Len(delivered) : delivered[k].ok

(***************************************************************************)
(* Properties of the adapters' connections                                 *)
(***************************************************************************)
\* C34: every adapter call has closed its socket when it returns, whether
\* the delivery succeeded, was refused, timed out or failed in the middle
\* of the exchange: no connection stays open between deliveries.
C34_ConnectionClosedOnEveryPath ==
    \A k \in 1..Len(delivered) : delivered[k].closed

\* The same for the per-contact adapter (N1MM+) and for the deliveries
\* that succeeded.
ClosedWhereCloseIsCalled ==
    \A k \in 1..Len(delivered) :
        (delivered[k].target = "n1mm" \/ delivered[k].ok) => delivered[k].closed

(***************************************************************************)
(* Properties of manual entry and the dedup set                            *)
(***************************************************************************)
\* C35: queue_qso_for_relay pushes the manual contact whatever the dedup
\* set holds and leaves the set unchanged; the contact stays on its way to
\* the logger (queued, with the worker, or delivered); and a ContactLogged
\* event is dropped as a duplicate only because of an admitted
\* ContactLogged event, never because of a manual contact of the same key.
C35_ManualEntryBypassesDedup ==
    /\ [][manualLeft' # manualLeft =>
             /\ logged_qsos' = logged_qsos
             /\ \E q \in ManualMenu : qso_queue' = Append(qso_queue, q)]_vars
    /\ [](\A i \in 1..Len(pushed) :
             pushed[i].src = GUI =>
                \/ pushed[i] \in Range(qso_queue)
                \/ rpc \in {"dispatch", "send"} /\ Base(rcur.q) = pushed[i]
                \/ \E k \in 1..Len(delivered) : Base(delivered[k].q) = pushed[i])
    /\ [](\A q \in dropped :
             \E i \in 1..Len(admitted) : QsoKey(admitted[i]) = QsoKey(q))
    /\ [](logged_qsos = {QsoKey(admitted[i]) : i \in 1..Len(admitted)})

\* The manual contact was handed to the adapter, and after it a contact
\* from a listener with the same key.
C35_Witness ==
    \E i, j \in 1..Len(delivered) :
        /\ i < j
        /\ delivered[i].q.src = GUI
        /\ FromListener(delivered[j].q)
        /\ QsoKey(delivered[i].q) = QsoKey(delivered[j].q)

(***************************************************************************)
(* Properties of the LoggedRecord handler                                  *)
(***************************************************************************)
\* C36: the step that receives a LoggedRecord datagram appends at most its
\* raw record to the durable log: the dedup set, the relay queue and its
\* history are unchanged and the listener is back at its receive (no
\* callback); every contact handed to the adapter is an admitted
\* ContactLogged event.
C36_LoggedRecordOnlyAppends ==
    /\ [][\A x \in net \ net' :
             x.d.type = MSG_LOGGED_ADIF =>
                /\ UNCHANGED <<logged_qsos, qso_queue, pushed, admitted, dropped>>
                /\ pc' = pc
                /\ adif' \in {adif, Append(adif, AdifRaw(x.port))}]_vars
    /\ [](\A k \in 1..Len(delivered) :
             /\ Base(delivered[k].q) \in Range(admitted)
             /\ delivered[k].q.call # AdifRaw(delivered[k].q.src).call)

\* A raw record is in the file, and the one ContactLogged event that
\* arrived with it is the only contact handed to the adapter.
C36_Witness ==
    /\ net = {}
    /\ \E p \in Ports : AdifRaw(p) \in Range(adif)
    /\ Len(delivered) = 1
    /\ qso_queue = <<>>
    /\ \A p \in Ports : pc[p] = "recv"

(***************************************************************************)
(* Properties of the stamper and the callback                              *)
(***************************************************************************)
\* The calls of one hook.
HooksOf(hook) == {h \in hooks : h.hook = hook}

SendsLocation(by) ==
    /\ Len(sentLoc') = Len(sentLoc) + 1
    /\ sentLoc'[Len(sentLoc')].by = by

\* C38: update_grid stores its argument as the last known grid before any
\* of its sends, and every send of a watchdog replay carries the grid that
\* is current at that send, also when it is not the grid that was current
\* when the new process id was detected.
C38_ReplayCarriesCurrentGrid ==
    /\ [](pc[GUI] \in {"ug_print", "ug_send", "ug_logger"} => current_grid = garg)
    /\ [][SendsLocation("update_grid") =>
             /\ pc[GUI] = "ug_send"
             /\ sentLoc'[Len(sentLoc')].grid = current_grid]_vars
    /\ [][SendsLocation("watchdog") =>
             sentLoc'[Len(sentLoc')].grid = current_grid]_vars
    /\ [][Len(sentLogger') > Len(sentLogger) =>
             sentLogger'[Len(sentLogger')].grid = current_grid]_vars

\* A replay has sent a grid that update_grid set during the settle delay:
\* it differs from the grid that was current when the poll detected the new
\* process id.
C38_Witness ==
    \E i \in 1..Len(sentLoc) :
        /\ sentLoc[i].by = "watchdog"
        /\ polls[sentLoc[i].n].replay
        /\ sentLoc[i].grid # polls[sentLoc[i].n].grid

(***************************************************************************)
(* Properties of a failed reading of the process list                      *)
(***************************************************************************)
\* Poll k did not get the process list: its sample is not the set of the
\* jt9.exe processes (which no step changes while shutdown is studied).
FailedPoll(k) == polls[k].sample # procs

\* C39: with the set of jt9.exe processes unchanged, a poll that fails to
\* read the process list triggers no replay, and neither does the poll
\* after it.
C39_FailedPollIsNoRestart ==
    \A k \in 2..Len(polls) :
        /\ FailedPoll(k) => ~polls[k].replay
        /\ (k > 2 /\ FailedPoll(k - 1)) => ~polls[k].replay

\* The first half alone: no replay at the failed poll itself.
NoReplayAtFailedPoll ==
    \A k \in 2..Len(polls) : FailedPoll(k) => ~polls[k].replay

(***************************************************************************)
(* Properties of the replacement of the engine                             *)
(***************************************************************************)
\* The old relay worker calls an adapter.
OldWorkerStartsDelivery == rpc = "dispatch" /\ rpc' = "send"

\* C40: when save_settings replaces the engine, the old relay worker starts
\* no delivery once the relay worker of the new instance has been started,
\* and at no time are two deliveries to the backend in progress.
C40_OldWorkerQuietAfterReplacement ==
    /\ [][OldWorkerStartsDelivery => replacement.rpc = "none"]_vars
    /\ [](inProgress <= 1)

\* The two halves of C40.
OldWorkerStartsNothingAfterReplacement ==
    [][OldWorkerStartsDelivery => replacement.rpc = "none"]_vars
OneDeliveryAcrossReplacement == inProgress <= 1

====
